---- MODULE Spec2Model ----
(***************************************************************************)
(* DividendHunterPro: the dividend-frequency analyser                      *)
(* (modulo1_ingenieria_datos.py), the payment-month column of the assets   *)
(* table (modulo2_persistencia_datos.py) and the portfolio dividend        *)
(* calendar (app.py).                                                      *)
(*                                                                         *)
(* Time is counted in clock ticks, TicksPerDay of them per calendar day;   *)
(* day 0 is 2024-01-01.  Dividend amounts and prices are counted in        *)
(* thousandths of the currency unit (mills).  The calendar's amounts are   *)
(* Python floats in the source; here they are exact rationals [n, d], so   *)
(* equalities between amounts are equalities of real numbers.              *)
(***************************************************************************)
EXTENDS Integers, Sequences, FiniteSets, TLC

VARIABLES
    clock,                  \* what pd.Timestamp.now() returns next
    dividends,              \* ticker.dividends of the ticker being analysed
    analysis,               \* what the last get_asset_metrics call observed
    metrics,                \* what the last get_asset_metrics call returned
    assets_table,           \* the rows of the assets table, by symbol
    portfolio_selected,     \* st.session_state.portfolio_selected
    portfolio_shares,       \* st.session_state.portfolio_shares
    portfolio_tax_rates,    \* st.session_state.portfolio_tax_rates
    gross_calendar,         \* what _calculate_monthly_dividends returned
    monthly_dividends,      \* the calendar after taxes, as displayed
    holding_status,         \* how the aggregator disposed of each asset
    tab_result,             \* how _portfolio_calendar_tab ended
    summary,                \* what _portfolio_summary_tab displayed
    call,                   \* a call of _calculate_monthly_dividends by itself
    batch,                  \* a batch of tickers and its results table
    again,                  \* a second get_asset_metrics call on the same history
    store,                  \* calls of the assets-table methods and what they gave
    codec,                  \* a months list or text put through format and parse
    portfolios,             \* the portfolios table and the calls made on it
    selection,              \* the selection tab: its filters and what it showed
    cache                   \* the symbol cache file and the calls that used it

vars == <<clock, dividends, analysis, metrics, assets_table,
          portfolio_selected, portfolio_shares, portfolio_tax_rates,
          gross_calendar, monthly_dividends, holding_status, tab_result,
          summary, call, batch, again, store, codec, portfolios, selection, cache>>

analyzerVars == <<clock, dividends, analysis, metrics, again>>
calendarVars == <<assets_table, portfolio_selected,
                  portfolio_shares, portfolio_tax_rates, gross_calendar,
                  monthly_dividends, holding_status, tab_result, summary>>
sessionVars == <<portfolio_selected, portfolio_shares, portfolio_tax_rates,
                 gross_calendar, monthly_dividends, holding_status, tab_result,
                 summary>>
laterVars == <<store, codec, portfolios, selection, cache>>
otherVars == <<call, batch, laterVars>>

None == "None"

(***************************************************************************)
(* Bounds of the model.                                                    *)
(***************************************************************************)
TicksPerDay == 2      \* clock resolution: ticks in one day
NumDates == 12        \* regular payment dates a history may draw from
MaxShares == 1        \* largest small share count (100 is always included)
MaxCacheDays == 9     \* days the clock of the symbol cache runs for
MaxOps == 3           \* writes made one after another on a table
MaxTokens == 3        \* tokens of a months text, elements of a months list
MaxCallAssets == 2    \* longest list of assets passed to the aggregator

(***************************************************************************)
(* Program constants.                                                      *)
(***************************************************************************)
WindowDays == 365         \* pd.Timedelta(days=365)
MonthlyMinPayments == 10  \* payment_count >= 10
QuarterlyMinPayments == 3 \* payment_count >= 3
CacheExpiryDays == 7      \* self.cache_expiry_days = 7

Months == 1..12

(***************************************************************************)
(* Generic helpers.                                                        *)
(***************************************************************************)
Min(S) == CHOOSE x \in S : \A y \in S : x <= y

RECURSIVE SortedSeq(_)
\* sorted(list(set(...))): the elements of S in ascending order
SortedSeq(S) == IF S = {} THEN <<>> ELSE <<Min(S)>> \o SortedSeq(S \ {Min(S)})

Range(s) == {s[i] : i \in DOMAIN s}

RECURSIVE SumAmounts(_)
\* Series.sum() over a set of events
SumAmounts(E) ==
    IF E = {} THEN 0
    ELSE LET e == CHOOSE x \in E : TRUE IN e.amount + SumAmounts(E \ {e})

(***************************************************************************)
(* Calendar dates: pandas' Timestamp.normalize() and Timestamp.month.      *)
(***************************************************************************)
IsLeap(y) == (y % 4 = 0 /\ y % 100 # 0) \/ y % 400 = 0

DaysInMonth(y, m) ==
    IF m = 2 THEN (IF IsLeap(y) THEN 29 ELSE 28)
    ELSE IF m \in {4, 6, 9, 11} THEN 30 ELSE 31

RECURSIVE MonthWalk(_, _, _)
MonthWalk(y, m, d) ==
    IF d < DaysInMonth(y, m) THEN m
    ELSE IF m = 12 THEN MonthWalk(y + 1, 1, d - DaysInMonth(y, m))
    ELSE MonthWalk(y, m + 1, d - DaysInMonth(y, m))

\* the calendar day of a timestamp (index.normalize())
DayOf(ts) == ts \div TicksPerDay

\* date.month of a timestamp
MonthOf(ts) == MonthWalk(2024, 1, DayOf(ts))

\* pd.Timestamp.now() - pd.Timedelta(days=365)
CutoffDate(now) == now - WindowDays * TicksPerDay

(***************************************************************************)
(* The dividend histories the market-data feed may deliver.  An event is   *)
(* one entry of the ticker.dividends Series: its index timestamp and its   *)
(* amount; id tells apart entries that agree on both.                      *)
(***************************************************************************)
NowDay == 366 + 165       \* 2025-06-15
EarlyDay == 366 + 14      \* 2025-01-15

Event(i, day, tod, amt) == [id |-> i, ts |-> day * TicksPerDay + tod, amount |-> amt]

\* one payment of 0.25 every 30 days, the latest 25 days before NowDay
RegularEvents == {Event(k, NowDay - 30 * k + 5, 0, 250) : k \in 1..NumDates}

SpecialEvents ==
    { Event(101, NowDay - 25, TicksPerDay - 1, 100),  \* same day as regular 1, later
      Event(102, NowDay - 365, 1, 500),   \* on the cutoff day, after midnight
      Event(103, NowDay - 364, 0, 4),     \* first day inside the window, 0.004
      Event(104, NowDay - 400, 0, 750) }  \* older than the window

\* 0.50 on 2024-03-15, 2024-06-15, 2024-09-15 and 2024-12-15
QuarterlyEvents ==
    { Event(201, 74, 0, 500), Event(202, 166, 0, 500),
      Event(203, 258, 0, 500), Event(204, 349, 0, 500) }

\* the latest n regular payments, some of the latest three left out
RegularHistories ==
    {{e \in RegularEvents : e.id <= n /\ e.id \notin G} :
        n \in 0..NumDates, G \in SUBSET (1..3)}

Histories ==
    {R \cup Q \cup S : R \in RegularHistories, Q \in {{}, QuarterlyEvents},
                       S \in SUBSET SpecialEvents}

(***************************************************************************)
(* DividendAnalyzer.analyze_dividend_frequency                             *)
(***************************************************************************)
RecentDividends_All(series, cutoff) == series

\* dividends[dividends.index >= cutoff_date]
RecentDividends(series, cutoff) == {e \in series : e.ts >= cutoff}

PaymentCount_Events(recent) == Cardinality(recent)

\* len(recent_dividends.index.normalize().unique())
PaymentCount(recent) == Cardinality({DayOf(e.ts) : e \in recent})

ClassifyCount_Strict(payment_count) ==
    IF payment_count > MonthlyMinPayments THEN "mensual"
    ELSE IF payment_count >= QuarterlyMinPayments THEN "trimestral"
    ELSE "irregular"

\* the if / elif / else over payment_count
ClassifyCount(payment_count) ==
    IF payment_count >= MonthlyMinPayments THEN "mensual"
    ELSE IF payment_count >= QuarterlyMinPayments THEN "trimestral"
    ELSE "irregular"

AnalyzeDividendFrequency_Propagates(series, now, raised) ==
    IF raised THEN "raised"
    ELSE IF series = {} THEN "sin_dividendos"
    ELSE IF RecentDividends(series, CutoffDate(now)) = {} THEN "sin_dividendos"
    ELSE ClassifyCount(PaymentCount(RecentDividends(series, CutoffDate(now))))

AnalyzeDividendFrequency_NoStaleCheck(series, now, raised) ==
    IF raised THEN "irregular"
    ELSE IF series = {} THEN "sin_dividendos"
    ELSE ClassifyCount(PaymentCount(RecentDividends(series, CutoffDate(now))))

\* raised: an exception was raised inside the try block (reading
\* ticker.dividends, or handling its index) and the except branch answered
AnalyzeDividendFrequency(series, now, raised) ==
    IF raised THEN "irregular"
    ELSE IF series = {} THEN "sin_dividendos"
    ELSE LET recent_dividends == RecentDividends(series, CutoffDate(now)) IN
         IF recent_dividends = {} THEN "sin_dividendos"
         ELSE ClassifyCount(PaymentCount(recent_dividends))

(***************************************************************************)
(* DividendAnalyzer.get_asset_metrics                                      *)
(***************************************************************************)
\* round(x, 2) of an amount in mills: the nearest cent, ties to even
Round2(x) ==
    LET q == x \div 10
        r == x % 10
    IN  IF r < 5 THEN 10 * q
        ELSE IF r > 5 THEN 10 * (q + 1)
        ELSE IF q % 2 = 0 THEN 10 * q ELSE 10 * (q + 1)

RECURSIVE MonthsOfEach(_)
\* [date.month for date in payment_dates], in the order of the index
MonthsOfEach(recent) ==
    IF recent = {} THEN <<>>
    ELSE LET e == CHOOSE x \in recent : \A y \in recent : x.ts <= y.ts
         IN  <<MonthOf(e.ts)>> \o MonthsOfEach({y \in recent : y.id # e.id})

PaymentMonths_Unsorted(recent) == MonthsOfEach(recent)

\* sorted(list(set([date.month for date in payment_dates])))
PaymentMonths(recent) ==
    IF recent = {} THEN <<>>
    ELSE SortedSeq({MonthOf(e.ts) : e \in recent})

\* the metrics dictionary built from the dividends Series; now1 is the clock
\* read by analyze_dividend_frequency, now2 the one read by get_asset_metrics
BuildMetrics(series, now1, now2, raised) ==
    LET dividend_frequency == AnalyzeDividendFrequency(series, now1, raised)
        recent_dividends == RecentDividends(series, CutoffDate(now2))
    IN  [ dividend_frequency |-> dividend_frequency,
          annual_dividend |->
              IF series = {} THEN 0 ELSE Round2(SumAmounts(recent_dividends)),
          dividend_payment_months |->
              IF series = {} THEN <<>> ELSE PaymentMonths(recent_dividends) ]

NoAnalysis == [now1 |-> 0, now2 |-> 0, raised |-> FALSE, returned |-> "nothing",
               payment_count |-> 0]

NoMetrics == [dividend_frequency |-> None, annual_dividend |-> 0,
              dividend_payment_months |-> <<>>]

\* get_asset_metrics(symbol).  The feed decides whether the ticker and its
\* price can be had; the clock may tick between the two reads of now().
GetAssetMetrics ==
    /\ analysis.returned = "nothing"
    /\ \E ok \in BOOLEAN, raised \in BOOLEAN, tick \in 0..1 :
          /\ clock' = clock + tick
          /\ analysis' = [now1 |-> clock, now2 |-> clock + tick,
                          raised |-> ok /\ raised,
                          returned |-> IF ok THEN "metrics" ELSE None,
                          payment_count |->
                              IF ok /\ ~raised
                              THEN PaymentCount(RecentDividends(dividends,
                                                                CutoffDate(clock)))
                              ELSE 0]
          /\ metrics' = IF ok THEN BuildMetrics(dividends, clock, clock + tick, raised)
                        ELSE NoMetrics
    /\ UNCHANGED <<dividends, again>>
    /\ UNCHANGED calendarVars
    /\ UNCHANGED otherVars

SeriesAfterCall_Consumed(series) == {}

\* what the analysis leaves of the ticker's dividends Series: the index is
\* converted on a copy, so all of it
SeriesAfterCall(series) == series

NoAgain == [now1 |-> 0, now2 |-> 0, raised |-> FALSE, returned |-> "nothing",
            metrics |-> NoMetrics]

\* get_asset_metrics(symbol) once more, on the Series the first call left
GetAssetMetricsAgain ==
    /\ analysis.returned = "metrics" /\ ~analysis.raised
    /\ again.returned = "nothing"
    /\ \E raised \in BOOLEAN, tick \in 0..1 :
          LET series == SeriesAfterCall(dividends) IN
          /\ clock' = clock + tick
          /\ again' = [now1 |-> clock, now2 |-> clock + tick, raised |-> raised,
                       returned |-> "metrics",
                       metrics |-> BuildMetrics(series, clock, clock + tick, raised)]
    /\ UNCHANGED <<dividends, analysis, metrics>>
    /\ UNCHANGED calendarVars
    /\ UNCHANGED otherVars

InitAnalyzer ==
    /\ clock \in {day * TicksPerDay + t :
                     day \in {NowDay, EarlyDay}, t \in 0..(TicksPerDay - 1)}
    /\ dividends \in Histories
    /\ analysis = NoAnalysis
    /\ metrics = NoMetrics
    /\ again = NoAgain

IdleAnalyzer ==
    /\ clock = NowDay * TicksPerDay
    /\ dividends = {}
    /\ analysis = NoAnalysis
    /\ metrics = NoMetrics
    /\ again = NoAgain

(***************************************************************************)
(* Amounts of the calendar: exact rationals [n, d] with d > 0, in lowest   *)
(* terms, standing for the floats of the source.                           *)
(***************************************************************************)
Abs(x) == IF x < 0 THEN -x ELSE x

RECURSIVE GCD(_, _)
GCD(a, b) == IF b = 0 THEN a ELSE GCD(b, a % b)

Rat(n, d) ==
    LET g == GCD(Abs(n), Abs(d))
        s == IF d < 0 THEN -1 ELSE 1
    IN  [n |-> (s * n) \div g, d |-> (s * d) \div g]

RZero == Rat(0, 1)
RAdd(a, b) == Rat(a.n * b.d + b.n * a.d, a.d * b.d)
RSub(a, b) == Rat(a.n * b.d - b.n * a.d, a.d * b.d)
RMul(a, b) == Rat(a.n * b.n, a.d * b.d)
RDivInt(a, k) == Rat(a.n, a.d * k)

\* sum(a['amount'] for a in ...)
RECURSIVE SumInfoAmounts(_)
SumInfoAmounts(infos) ==
    IF infos = <<>> THEN RZero ELSE RAdd(Head(infos).amount, SumInfoAmounts(Tail(infos)))

(***************************************************************************)
(* The assets table.  The column dividend_payment_months is text: a list   *)
(* of comma-separated tokens.  A token is either a string of digits, with  *)
(* the number it reads as, or some other text.                             *)
(***************************************************************************)
Symbols == <<"AAA", "BBB">>

Num(v) == [digits |-> TRUE, decimal |-> TRUE, value |-> v]
Txt == [digits |-> FALSE, decimal |-> FALSE, value |-> 0]
\* a token str.isdigit() accepts and int() does not read, such as a
\* superscript two
DigitNotDecimal == [digits |-> TRUE, decimal |-> FALSE, value |-> 0]

RECURSIVE JoinNumbers(_)
\* ",".join([str(m) for m in ...])
JoinNumbers(ms) == IF ms = <<>> THEN <<>> ELSE <<Num(Head(ms))>> \o JoinNumbers(Tail(ms))

RECURSIVE Sorted(_)
\* sorted(months): the list in ascending order, duplicates kept
Sorted(months) ==
    IF months = <<>> THEN <<>>
    ELSE LET i == CHOOSE k \in DOMAIN months : months[k] = Min(Range(months))
         IN  <<months[i]>>
                \o Sorted(SubSeq(months, 1, i - 1) \o SubSeq(months, i + 1, Len(months)))

\* DatabaseManager._format_payment_months
FormatPaymentMonths(months) ==
    IF months = <<>> THEN <<>> ELSE JoinNumbers(Sorted(months))

\* DatabaseManager._parse_payment_months; int() of a token that is not a
\* decimal number raises, and the except clause answers []
ParsePaymentMonths(months_str) ==
    IF months_str = <<>> THEN <<>>
    ELSE IF \E j \in DOMAIN months_str :
                months_str[j].digits /\ ~months_str[j].decimal
    THEN <<>>
    ELSE SortedSeq({months_str[i].value :
                       i \in {j \in DOMAIN months_str :
                                 /\ months_str[j].digits
                                 /\ 1 <= months_str[j].value
                                 /\ months_str[j].value <= 12}})

Row(sym, yld, freq, annual, text) ==
    [symbol |-> sym, dividend_yield |-> yld, dividend_frequency |-> freq,
     annual_dividend |-> annual, dividend_payment_months |-> text]

\* what a row of the assets table may hold beside its symbol: cadence,
\* annual dividend per share (mills) and the payment-months text.  Rows
\* written by upsert_asset hold the analyser's output; rows without months
\* are those of a table older than the column; the others stand for what
\* the file may hold besides.  The yield of a row is the one its annual
\* dividend gives at a price of 100.00, in thousandths of a per cent.
RowPool ==
    { <<"trimestral", 2000, <<Num(3), Num(6), Num(9), Num(12)>> >>,
      <<"trimestral", 2000, <<>> >>,
      <<"trimestral", 1000, <<Num(2), Num(5), Num(8)>> >>,
      <<"mensual", 3000, <<>> >>,
      <<"irregular", 500, <<>> >>,
      <<"irregular", 500, <<Num(6)>> >>,
      <<"sin_dividendos", 0, <<>> >>,
      <<"sin_dividendos", 1000, <<>> >>,
      <<"trimestral", 0, <<Num(3), Num(6)>> >>,
      <<"trimestral", 2000, <<Num(3), Num(13)>> >>,
      <<"mensual", 1200, <<Txt, Num(0), Num(13)>> >> }

\* the place of a symbol's row in the table (its rowid)
RowId(sym) == CHOOSE i \in DOMAIN Symbols : Symbols[i] = sym

\* ORDER BY dividend_yield DESC over the rows of the given symbols
RECURSIVE OrderByYield(_, _)
OrderByYield(table, syms) ==
    IF syms = {} THEN <<>>
    ELSE LET top == CHOOSE x \in syms :
                        \A y \in syms :
                            \/ table[x].dividend_yield > table[y].dividend_yield
                            \/ /\ table[x].dividend_yield = table[y].dividend_yield
                               /\ RowId(x) <= RowId(y)
         IN  <<table[top]>> \o OrderByYield(table, syms \ {top})

\* DatabaseManager.get_all_assets(): every row, its months column parsed
GetAllAssets(table) ==
    LET rows == OrderByYield(table, DOMAIN table) IN
    [i \in DOMAIN rows |->
        [rows[i] EXCEPT !.dividend_payment_months =
                            ParsePaymentMonths(rows[i].dividend_payment_months)]]

(***************************************************************************)
(* DividendHunterApp._calculate_monthly_dividends                          *)
(***************************************************************************)
EmptyCalendar_FromZero == [m \in 0..11 |-> [amount |-> [n |-> 0, d |-> 1], assets |-> <<>>]]

\* {i: {'amount': 0.0, 'assets': []} for i in range(1, 13)}
EmptyCalendar == [m \in Months |-> [amount |-> RZero, assets |-> <<>>]]

\* shares_dict.get(symbol, 0)
SharesOf(shares_dict, symbol) ==
    IF symbol \in DOMAIN shares_dict THEN shares_dict[symbol] ELSE 0

\* annual_dividend_per_share * shares
TotalAnnualDividend(asset, shares) == Rat(asset.annual_dividend * shares, 1000)

\* the list branch of the months parsing: the entries that are months, in
\* the order and number in which the list holds them
NormalizeMonthsList(months_data) == SelectSeq(months_data, LAMBDA m : 1 <= m /\ m <= 12)

\* the schedule used when no payment months are defined
DefaultPaymentMonths(frequency) ==
    IF frequency = "mensual" THEN <<1, 2, 3, 4, 5, 6, 7, 8, 9, 10, 11, 12>>
    ELSE IF frequency = "trimestral" THEN <<3, 6, 9, 12>>
    ELSE IF frequency = "irregular" THEN <<6, 12>>
    ELSE <<>>

EffectivePaymentMonths_DefaultOnly(asset) == DefaultPaymentMonths(asset.dividend_frequency)

\* payment_months once the stored months and the default have been looked at
EffectivePaymentMonths(asset) ==
    LET payment_months == NormalizeMonthsList(asset.dividend_payment_months) IN
    IF payment_months # <<>> THEN payment_months
    ELSE DefaultPaymentMonths(asset.dividend_frequency)

\* len(payment_months) if payment_months else 12 / 4 / 2
NumPayments(frequency, payment_months) ==
    IF payment_months # <<>> THEN Len(payment_months)
    ELSE IF frequency = "mensual" THEN 12
    ELSE IF frequency = "trimestral" THEN 4
    ELSE 2

PaymentAmount_PerYear(total_annual_dividend, frequency, payment_months) ==
    RDivInt(total_annual_dividend, 12)

PaymentAmount_DefaultCount(total_annual_dividend, frequency, payment_months) ==
    RDivInt(total_annual_dividend, NumPayments(frequency, <<>>))

\* total_annual_dividend / num_payments
PaymentAmount(total_annual_dividend, frequency, payment_months) ==
    RDivInt(total_annual_dividend, NumPayments(frequency, payment_months))

Disposition_NoDividendCheck(asset, shares) ==
    IF shares <= 0 THEN "no_shares"
    ELSE IF asset.dividend_frequency = "sin_dividendos" THEN "no_dividend"
    ELSE "included"

\* the two `continue` statements at the head of the loop over the assets
Disposition(asset, shares) ==
    IF shares <= 0 THEN "no_shares"
    ELSE IF TotalAnnualDividend(asset, shares).n <= 0
               \/ asset.dividend_frequency = "sin_dividendos" THEN "no_dividend"
    ELSE "included"

RECURSIVE Distribute_NoTotal(_, _, _)
Distribute_NoTotal(cal, payment_months, info) ==
    IF payment_months = <<>> THEN cal
    ELSE Distribute_NoTotal([cal EXCEPT ![Head(payment_months)].assets =
                                            Append(@, info)],
                            Tail(payment_months), info)

RECURSIVE Distribute(_, _, _)
\* for month in payment_months: add the amount and append the record
Distribute(cal, payment_months, info) ==
    IF payment_months = <<>> THEN cal
    ELSE LET month == Head(payment_months) IN
         Distribute([cal EXCEPT ![month] =
                         [amount |-> RAdd(@.amount, info.amount),
                          assets |-> Append(@.assets, info)]],
                    Tail(payment_months), info)

\* one iteration of the loop over the assets
AddAsset(cal, asset, shares_dict) ==
    LET shares == SharesOf(shares_dict, asset.symbol)
        frequency == asset.dividend_frequency
        payment_months == EffectivePaymentMonths(asset)
    IN  IF Disposition(asset, shares) # "included" THEN cal
        ELSE IF frequency \in {"mensual", "trimestral", "irregular"}
        THEN Distribute(cal, payment_months,
                        [symbol |-> asset.symbol,
                         amount |-> PaymentAmount(TotalAnnualDividend(asset, shares),
                                                  frequency, payment_months),
                         shares |-> shares])
        ELSE cal

RECURSIVE CalculateMonthlyDividendsFrom(_, _, _)
CalculateMonthlyDividendsFrom(cal, assets, shares_dict) ==
    IF assets = <<>> THEN cal
    ELSE CalculateMonthlyDividendsFrom(AddAsset(cal, Head(assets), shares_dict),
                                       Tail(assets), shares_dict)

\* _calculate_monthly_dividends(assets, shares_dict)
CalculateMonthlyDividends(assets, shares_dict) ==
    CalculateMonthlyDividendsFrom(EmptyCalendar, assets, shares_dict)

DictAfterGet_SetDefault(d, key) ==
    IF key \in DOMAIN d THEN d
    ELSE [k \in DOMAIN d \cup {key} |-> IF k = key THEN 0 ELSE d[k]]

\* what shares_dict.get(symbol, 0) leaves of the dictionary: all of it
DictAfterGet(d, key) == d

RECURSIVE SharesDictAfter(_, _)
\* the shares dictionary once the loop has looked up every asset in it
SharesDictAfter(d, assets) ==
    IF assets = <<>> THEN d
    ELSE SharesDictAfter(DictAfterGet(d, Head(assets).symbol), Tail(assets))

(***************************************************************************)
(* DividendHunterApp._portfolio_calendar_tab                               *)
(***************************************************************************)
\* st.session_state.portfolio_tax_rates.get(symbol, 0.0), in per cent; the
\* session holds the rates in tenths of a per cent
TaxRateOf(tax_rates, symbol) ==
    IF symbol \in DOMAIN tax_rates THEN Rat(tax_rates[symbol], 10) ELSE RZero

TaxAmount_OfRate(dividend_before_tax, tax_rate) == RMul(dividend_before_tax, tax_rate)

\* dividend_before_tax * (tax_rate / 100)
TaxAmount(dividend_before_tax, tax_rate) ==
    RMul(dividend_before_tax, RDivInt(tax_rate, 100))

\* the body of the loop over a month's asset_info records
ApplyTax(asset_info, tax_rates) ==
    LET tax_rate == TaxRateOf(tax_rates, asset_info.symbol)
        dividend_before_tax == asset_info.amount
        tax_amount == TaxAmount(dividend_before_tax, tax_rate)
    IN  [symbol |-> asset_info.symbol,
         shares |-> asset_info.shares,
         amount_before_tax |-> dividend_before_tax,
         tax_amount |-> tax_amount,
         amount |-> RSub(dividend_before_tax, tax_amount),
         tax_rate |-> tax_rate]

\* the loop over the months: taxes applied, month totals recomputed
ApplyTaxes(cal, tax_rates) ==
    [m \in Months |->
        LET infos == [i \in DOMAIN cal[m].assets |-> ApplyTax(cal[m].assets[i], tax_rates)]
        IN  [amount |-> SumInfoAmounts(infos), assets |-> infos]]

RECURSIVE SumMonthsFrom(_, _)
SumMonthsFrom(cal, m) ==
    IF m > 12 THEN RZero ELSE RAdd(cal[m].amount, SumMonthsFrom(cal, m + 1))

\* sum(data['amount'] for data in monthly_dividends.values())
TotalAnnual(cal) == SumMonthsFrom(cal, 1)

\* [a for a in all_assets if a['symbol'] in st.session_state.portfolio_selected]
SelectedAssets(all_assets, selected) ==
    SelectSeq(all_assets, LAMBDA a : a.symbol \in Range(selected))

NoStatus == [s \in Range(Symbols) |-> "not_selected"]

\* how the loop over the assets disposes of each symbol's holding
HoldingStatus(selected_assets, shares_dict) ==
    [s \in Range(Symbols) |->
        IF \E i \in DOMAIN selected_assets : selected_assets[i].symbol = s
        THEN LET asset == selected_assets[CHOOSE i \in DOMAIN selected_assets :
                                              selected_assets[i].symbol = s]
             IN  Disposition(asset, SharesOf(shares_dict, s))
        ELSE "not_selected"]

\* how the tab ends: the early returns, or the calendar displayed
TabResult(selected, selected_assets, shares_dict) ==
    IF selected = <<>> THEN "no_selection"
    ELSE IF selected_assets = <<>> THEN "no_data"
    ELSE IF \A i \in DOMAIN selected_assets :
                SharesOf(shares_dict, selected_assets[i].symbol) <= 0
    THEN "no_shares"
    ELSE "displayed"

\* the calendar tab, from the session state and the assets table
PortfolioCalendarTab ==
    /\ tab_result = "idle"
    /\ LET selected_assets == SelectedAssets(GetAllAssets(assets_table), portfolio_selected)
           result == TabResult(portfolio_selected, selected_assets, portfolio_shares)
           gross == CalculateMonthlyDividends(selected_assets, portfolio_shares)
       IN  /\ tab_result' = result
           /\ IF result \in {"no_selection", "no_data"}
              THEN UNCHANGED <<gross_calendar, monthly_dividends, holding_status>>
              ELSE /\ gross_calendar' = gross
                   /\ monthly_dividends' = ApplyTaxes(gross, portfolio_tax_rates)
                   /\ holding_status' = HoldingStatus(selected_assets, portfolio_shares)
    /\ UNCHANGED <<assets_table, portfolio_selected, portfolio_shares, portfolio_tax_rates>>
    /\ UNCHANGED summary
    /\ UNCHANGED analyzerVars
    /\ UNCHANGED otherVars

(***************************************************************************)
(* DividendHunterApp._portfolio_summary_tab                                *)
(***************************************************************************)
NoSummary == [result |-> "idle", before_tax |-> RZero, tax |-> RZero,
              after_tax |-> RZero, total_monthly |-> RZero]

\* [a for a in selected_assets if shares_dict.get(a['symbol'], 0) > 0]
AssetsWithShares(selected_assets, shares_dict) ==
    SelectSeq(selected_assets, LAMBDA a : SharesOf(shares_dict, a.symbol) > 0)

AssetAnnualDividendAfterTax_NoTax(before_tax, tax_rate) == before_tax

\* asset_annual_dividend_before_tax - asset_tax_amount
AssetAnnualDividendAfterTax(before_tax, tax_rate) ==
    RSub(before_tax, TaxAmount(before_tax, tax_rate))

RECURSIVE SummaryTotals(_, _, _, _)
\* the loop over selected_assets_with_shares: the three running totals
SummaryTotals(totals, assets, shares_dict, tax_rates) ==
    IF assets = <<>> THEN totals
    ELSE LET asset == Head(assets)
             shares == SharesOf(shares_dict, asset.symbol)
             tax_rate == TaxRateOf(tax_rates, asset.symbol)
             before_tax == TotalAnnualDividend(asset, shares)
         IN  SummaryTotals(
                 [before_tax |-> RAdd(totals.before_tax, before_tax),
                  tax |-> RAdd(totals.tax, TaxAmount(before_tax, tax_rate)),
                  after_tax |-> RAdd(totals.after_tax,
                                     AssetAnnualDividendAfterTax(before_tax, tax_rate))],
                 Tail(assets), shares_dict, tax_rates)

\* how the summary ends: its early returns, or the figures displayed
SummaryResult(selected, selected_assets, with_shares) ==
    IF selected = <<>> THEN "no_selection"
    ELSE IF selected_assets = <<>> THEN "no_data"
    ELSE IF with_shares = <<>> THEN "no_shares"
    ELSE "displayed"

\* the summary tab, from the session state and the assets table; the page
\* runs it after the calendar tab
PortfolioSummaryTab ==
    /\ summary.result = "idle"
    /\ tab_result # "idle"
    /\ LET selected_assets == SelectedAssets(GetAllAssets(assets_table), portfolio_selected)
           with_shares == AssetsWithShares(selected_assets, portfolio_shares)
           result == SummaryResult(portfolio_selected, selected_assets, with_shares)
           totals == SummaryTotals([before_tax |-> RZero, tax |-> RZero,
                                    after_tax |-> RZero],
                                   with_shares, portfolio_shares, portfolio_tax_rates)
           monthly == ApplyTaxes(CalculateMonthlyDividends(with_shares, portfolio_shares),
                                 portfolio_tax_rates)
       IN  summary' = IF result # "displayed"
                      THEN [NoSummary EXCEPT !.result = result]
                      ELSE [result |-> result,
                            before_tax |-> totals.before_tax,
                            tax |-> totals.tax,
                            after_tax |-> totals.after_tax,
                            total_monthly |-> TotalAnnual(monthly)]
    /\ UNCHANGED <<assets_table, portfolio_selected, portfolio_shares, portfolio_tax_rates,
                   gross_calendar, monthly_dividends, holding_status, tab_result>>
    /\ UNCHANGED analyzerVars
    /\ UNCHANGED otherVars

(***************************************************************************)
(* DividendHunterApp._portfolio_saved_tab: loading a stored portfolio.     *)
(* The JSON columns of the stored row hold a value per symbol: a number,   *)
(* or something that is not a number.                                      *)
(***************************************************************************)
JsonNumber(v) == [number |-> TRUE, value |-> v]
JsonOther == [number |-> FALSE, value |-> 0]

StoredShares == {JsonNumber(v) : v \in (-1..MaxShares) \cup {100}} \cup {JsonOther}

\* tenths of a per cent: 0 %, 15 %, 150 %
StoredTaxRates == {JsonNumber(0), JsonNumber(150), JsonNumber(1500)}

StoredSelections == {Symbols, <<Symbols[1]>>}

\* int(v) if isinstance(v, (int, float)) else 0, and the same with float
CleanValue(v) == IF v.number THEN v.value ELSE 0

LoadPortfolio ==
    /\ tab_result = "idle"
    /\ portfolio_selected = <<>>
    /\ \E selected_symbols \in StoredSelections,
          shares_data \in [Range(Symbols) -> StoredShares],
          tax_rates_data \in [Range(Symbols) -> StoredTaxRates] :
          /\ portfolio_selected' = selected_symbols
          /\ portfolio_shares' = [s \in DOMAIN shares_data |-> CleanValue(shares_data[s])]
          /\ portfolio_tax_rates' =
                 [s \in DOMAIN tax_rates_data |-> CleanValue(tax_rates_data[s])]
    /\ UNCHANGED <<assets_table, gross_calendar, monthly_dividends, holding_status,
                   tab_result, summary>>
    /\ UNCHANGED analyzerVars
    /\ UNCHANGED otherVars

InitCalendar ==
    /\ assets_table \in
           {[s \in Range(Symbols) |->
                 Row(s, r[s][2], r[s][1], r[s][2], r[s][3])] :
              r \in [Range(Symbols) -> RowPool]}
    /\ portfolio_selected = <<>>
    /\ portfolio_shares = <<>>
    /\ portfolio_tax_rates = <<>>
    /\ gross_calendar = EmptyCalendar
    /\ monthly_dividends = EmptyCalendar
    /\ holding_status = NoStatus
    /\ tab_result = "idle"
    /\ summary = NoSummary

IdleCalendar ==
    /\ assets_table = <<>>
    /\ portfolio_selected = <<>>
    /\ portfolio_shares = <<>>
    /\ portfolio_tax_rates = <<>>
    /\ gross_calendar = EmptyCalendar
    /\ monthly_dividends = EmptyCalendar
    /\ holding_status = NoStatus
    /\ tab_result = "idle"
    /\ summary = NoSummary

NextCalendar == LoadPortfolio \/ PortfolioCalendarTab \/ PortfolioSummaryTab

(***************************************************************************)
(* _calculate_monthly_dividends called by itself: a list of asset          *)
(* dictionaries whose payment months are lists, and a shares dictionary    *)
(* or None, for which the function reads the session's.                    *)
(***************************************************************************)
Asset(sym, freq, annual, months) ==
    [symbol |-> sym, dividend_frequency |-> freq, annual_dividend |-> annual,
     dividend_payment_months |-> months]

CallAssetPool ==
    { Asset("AAA", "trimestral", 2000, <<3, 6, 9, 12>>),
      Asset("AAA", "mensual", 1200, <<>>),
      Asset("BBB", "irregular", 500, <<6, 6, 13>>),
      Asset("BBB", "sin_dividendos", 0, <<>>),
      Asset("BBB", "trimestral", 0, <<3>>),
      Asset("AAA", "otra", 1000, <<1>>) }

CallAssetLists ==
    UNION {[1..n -> CallAssetPool] : n \in 0..MaxCallAssets}

GivenDict(d) == [given |-> TRUE, dict |-> d]
NoneDict == [given |-> FALSE, dict |-> <<>>]

CallSharesDicts ==
    {NoneDict} \cup
    {GivenDict(d) : d \in UNION {[D -> {-1, 0, 1, 100}] : D \in SUBSET Range(Symbols)}}

SessionShares == {<<>>, [s \in Range(Symbols) |-> IF s = "AAA" THEN 100 ELSE 1]}

\* if shares_dict is None: shares_dict = st.session_state.portfolio_shares
CallSharesDict(shares_dict, session_shares) ==
    IF shares_dict.given THEN shares_dict.dict ELSE session_shares

\* _calculate_monthly_dividends(assets, shares_dict), with what it leaves
\* of its arguments and of the session
CalculateMonthlyDividendsCall ==
    /\ call.state = "ready"
    /\ LET shares_dict == CallSharesDict(call.shares_dict, portfolio_shares)
           after == SharesDictAfter(shares_dict, call.assets)
       IN  /\ call' = [state |-> "returned",
                       assets |-> call.assets,
                       shares_dict |-> IF call.shares_dict.given
                                       THEN GivenDict(after) ELSE NoneDict,
                       returned |-> CalculateMonthlyDividends(call.assets, shares_dict)]
           /\ portfolio_shares' = IF call.shares_dict.given THEN portfolio_shares
                                   ELSE after
    /\ UNCHANGED <<assets_table, portfolio_selected, portfolio_tax_rates,
                   gross_calendar, monthly_dividends, holding_status, tab_result,
                   summary>>
    /\ UNCHANGED analyzerVars
    /\ UNCHANGED <<batch, laterVars>>

InitAggregator ==
    /\ call \in {[state |-> "ready", assets |-> a, shares_dict |-> d,
                   returned |-> EmptyCalendar] :
                     a \in CallAssetLists, d \in CallSharesDicts}
    /\ assets_table \in {<<>>, [s \in Range(Symbols) |->
                                    Row(s, 2000, "trimestral", 2000, <<Num(3), Num(6)>>)]}
    /\ portfolio_selected \in {<<>>, Symbols}
    /\ portfolio_shares \in SessionShares
    /\ portfolio_tax_rates = <<>>
    /\ gross_calendar = EmptyCalendar
    /\ monthly_dividends = EmptyCalendar
    /\ holding_status = NoStatus
    /\ tab_result = "idle"
    /\ summary = NoSummary

NextAggregator == CalculateMonthlyDividendsCall

(***************************************************************************)
(* Batches of tickers: _process_tickers_batch, _process_update_all_assets  *)
(* and _process_auto_search, over DatabaseManager.upsert_asset.  What the  *)
(* market-data feed answers for a ticker is fixed for the batch: an        *)
(* exception, None, or a metrics dictionary, after so many seconds.  Prices*)
(* are in mills, yields in thousandths of a per cent.                      *)
(***************************************************************************)
Tickers == {"AAA", "BBB", "CCC"}

\* the dictionary get_asset_metrics builds; it has no 'platforms' key
Metrics(sym, name, price, annual, yld, freq, months) ==
    [symbol |-> sym, name |-> name, current_price |-> price,
     annual_dividend |-> annual, dividend_yield |-> yld,
     dividend_frequency |-> freq, dividend_payment_months |-> months]

Fetched(kind, seconds, name, price, annual, yld, freq, months) ==
    [kind |-> kind, seconds |-> seconds, name |-> name, current_price |-> price,
     annual_dividend |-> annual, dividend_yield |-> yld,
     dividend_frequency |-> freq, dividend_payment_months |-> months]

\* what the feed may answer for a ticker
FetchPool ==
    { Fetched("raises", 1, None, 0, 0, 0, None, <<>>),
      Fetched("none", 0, None, 0, 0, 0, None, <<>>),
      \* a yield above 100 per cent: the validator turns it down
      Fetched("metrics", 0, "name", 1000, 2000, 200000, "trimestral", <<3, 6, 9, 12>>),
      \* longName is None: the NOT NULL column name turns it down
      Fetched("metrics", 0, None, 100000, 2000, 2000, "trimestral", <<3, 6, 9, 12>>),
      Fetched("metrics", 0, "name", 100000, 2000, 2000, "trimestral", <<3, 6, 9, 12>>),
      Fetched("metrics", 1, "name", 100000, 3000, 3000, "mensual", <<>>) }

\* analyzer.get_asset_metrics(ticker), when it returns a dictionary
MetricsOf(ticker, fetched) ==
    Metrics(ticker, fetched.name, fetched.current_price, fetched.annual_dividend,
            fetched.dividend_yield, fetched.dividend_frequency,
            fetched.dividend_payment_months)

\* DataValidator.validate_asset_metrics
ValidateAssetMetrics(asset_metrics) ==
    /\ asset_metrics.symbol # ""
    /\ asset_metrics.current_price > 0
    /\ asset_metrics.dividend_yield >= 0 /\ asset_metrics.dividend_yield <= 100000

\* COALESCE(?, platforms)
Coalesce_Overwrite(value, old) == value

Coalesce(value, old) == IF value = None THEN old ELSE value

\* a row of the assets table as upsert_asset writes it
StoredRow(asset_data, platforms, created_at) ==
    [symbol |-> asset_data.symbol,
     name |-> asset_data.name,
     current_price |-> asset_data.current_price,
     annual_dividend |-> asset_data.annual_dividend,
     dividend_yield |-> asset_data.dividend_yield,
     dividend_frequency |-> asset_data.dividend_frequency,
     dividend_payment_months |-> FormatPaymentMonths(asset_data.dividend_payment_months),
     platforms |-> platforms,
     created_at |-> created_at]

InsertRow_Single(table, row) == [s \in {row.symbol} |-> row]

\* INSERT INTO assets
InsertRow(table, row) ==
    [s \in DOMAIN table \cup {row.symbol} |-> IF s = row.symbol THEN row ELSE table[s]]

\* asset_data.get('platforms')
PlatformsOf(asset_data) ==
    IF "platforms" \in DOMAIN asset_data THEN asset_data.platforms ELSE None

\* DatabaseManager.upsert_asset(asset_data) at the database time now: what
\* it returns and the table it leaves
UpsertAsset(table, asset_data, now) ==
    IF asset_data.name = None
    THEN [ok |-> FALSE, table |-> table]
    ELSE IF asset_data.symbol \in DOMAIN table
    THEN [ok |-> TRUE,
          table |-> [table EXCEPT ![asset_data.symbol] =
                        StoredRow(asset_data,
                                  Coalesce(PlatformsOf(asset_data), @.platforms),
                                  @.created_at)]]
    ELSE [ok |-> TRUE,
          table |-> InsertRow(table, StoredRow(asset_data, PlatformsOf(asset_data), now))]

ResultRow(ticker, estado) == [ticker |-> ticker, estado |-> estado]

\* the body of the loop of _process_tickers_batch
ProcessTicker(table, ticker, fetched, now) ==
    IF fetched.kind = "raises"
    THEN [row |-> ResultRow(ticker, "error"), table |-> table]
    ELSE IF fetched.kind = "none"
    THEN [row |-> ResultRow(ticker, "sin_datos_api"), table |-> table]
    ELSE IF ~ValidateAssetMetrics(MetricsOf(ticker, fetched))
    THEN [row |-> ResultRow(ticker, "datos_invalidos"), table |-> table]
    ELSE LET saved == UpsertAsset(table, MetricsOf(ticker, fetched), now) IN
         [row |-> ResultRow(ticker, IF saved.ok THEN "exitoso" ELSE "error_bd"),
          table |-> saved.table]

\* the body of the loop of _process_update_all_assets
ProcessUpdate(table, symbol, fetched, now) ==
    IF fetched.kind = "raises"
    THEN [row |-> ResultRow(symbol, "error"), table |-> table]
    ELSE IF fetched.kind = "metrics" /\ ValidateAssetMetrics(MetricsOf(symbol, fetched))
    THEN LET saved == UpsertAsset(table, MetricsOf(symbol, fetched), now) IN
         [row |-> ResultRow(symbol, IF saved.ok THEN "actualizado" ELSE "error_bd"),
          table |-> saved.table]
    ELSE [row |-> ResultRow(symbol, "sin_datos"), table |-> table]

\* the body of the loop of _process_auto_search
ProcessSearch(table, symbol, fetched, now) ==
    IF fetched.kind = "raises"
    THEN [row |-> ResultRow(symbol, "error"), table |-> table]
    ELSE IF fetched.kind = "metrics" /\ ValidateAssetMetrics(MetricsOf(symbol, fetched))
    THEN IF symbol \in DOMAIN table
         THEN [row |-> ResultRow(symbol, "ya_existe"), table |-> table]
         ELSE LET saved == UpsertAsset(table, MetricsOf(symbol, fetched), now) IN
              [row |-> ResultRow(symbol, IF saved.ok THEN "agregado" ELSE "error_bd"),
               table |-> saved.table]
    ELSE [row |-> ResultRow(symbol, "sin_datos"), table |-> table]

ProcessOne(kind, table, ticker, fetched, now) ==
    IF kind = "import" THEN ProcessTicker(table, ticker, fetched, now)
    ELSE IF kind = "update" THEN ProcessUpdate(table, ticker, fetched, now)
    ELSE ProcessSearch(table, ticker, fetched, now)

RestAfter_AbortOnError(row, rest) == IF row.estado = "error" THEN <<>> ELSE rest

\* the tickers the loop still has to go through once a row is appended: the
\* try / except is inside the loop, so all the rest
RestAfter(row, rest) == rest

RECURSIVE RunBatch(_, _, _, _, _, _)
\* for i, ticker in enumerate(tickers): the table and the results list at
\* the end of the loop
RunBatch(kind, table, tickers, feed, now, results) ==
    IF tickers = <<>> THEN [table |-> table, results |-> results]
    ELSE LET ticker == Head(tickers)
             at == now + feed[ticker].seconds
             step == ProcessOne(kind, table, ticker, feed[ticker], at)
         IN  RunBatch(kind, step.table, RestAfter(step.row, Tail(tickers)), feed, at,
                      Append(results, step.row))

\* the batch run as a whole
BatchRun(kind) ==
    /\ batch.state = "ready"
    /\ LET run == RunBatch(kind, assets_table, batch.tickers, batch.feed,
                           batch.started, <<>>)
       IN  /\ batch' = [batch EXCEPT !.state = "done", !.results = run.results]
           /\ assets_table' = run.table
    /\ UNCHANGED <<portfolio_selected, portfolio_shares, portfolio_tax_rates,
                   gross_calendar, monthly_dividends, holding_status, tab_result,
                   summary>>
    /\ UNCHANGED analyzerVars
    /\ UNCHANGED <<call, laterVars>>

\* _process_tickers_batch(tickers)
ProcessTickersBatch ==
    /\ batch.kind = "import"
    /\ BatchRun("import")

\* _process_update_all_assets(symbols)
ProcessUpdateAllAssets ==
    /\ batch.kind = "update"
    /\ BatchRun("update")

\* _process_auto_search(symbols)
ProcessAutoSearch ==
    /\ batch.kind = "search"
    /\ BatchRun("search")

\* _auto_search_new_assets_tab with the button pressed: the tickers asked
\* for are split into those already stored, which are listed, and the new
\* ones, which are passed to _process_auto_search when there are any
AutoSearchNewAssetsTab ==
    /\ batch.kind = "search_tab"
    /\ batch.state = "ready"
    /\ LET existing_symbols == DOMAIN assets_table
           new_tickers == SelectSeq(batch.requested, LAMBDA t : t \notin existing_symbols)
           already_stored == SelectSeq(batch.requested, LAMBDA t : t \in existing_symbols)
           run == RunBatch("search", assets_table, new_tickers, batch.feed,
                           batch.started, <<>>)
       IN  /\ batch' = [batch EXCEPT !.state = "done", !.tickers = new_tickers,
                                     !.already_stored = already_stored,
                                     !.results = run.results]
           /\ assets_table' = run.table
    /\ UNCHANGED sessionVars
    /\ UNCHANGED analyzerVars
    /\ UNCHANGED <<call, laterVars>>

\* the orders in which the tickers of a set can be listed
Orders(S) ==
    {f \in [1..Cardinality(S) -> S] : \A i, j \in 1..Cardinality(S) : f[i] = f[j] => i = j}

\* rows stored before the batch, with their platforms and insertion time
OldRow(sym, platforms) ==
    StoredRow(Metrics(sym, "old name", 90000, 1000, 1111, "irregular", <<6>>),
              platforms, 0)

BatchTables ==
    { <<>>,
      [s \in {"AAA"} |-> OldRow(s, "PREX")],
      [s \in {"AAA", "BBB"} |-> OldRow(s, IF s = "AAA" THEN "PREX" ELSE None)] }

BatchStart == 10

InitBatch ==
    /\ assets_table \in BatchTables
    /\ batch \in {[state |-> "ready", kind |-> k, tickers |-> t, feed |-> f,
                    table0 |-> assets_table, started |-> BatchStart,
                    results |-> <<>>, requested |-> t, already_stored |-> <<>>] :
                      k \in {"import", "update", "search", "search_tab"},
                      t \in UNION {Orders(S) : S \in (SUBSET Tickers) \ {{}}},
                      f \in [Tickers -> FetchPool]}
    /\ portfolio_selected = <<>>
    /\ portfolio_shares = <<>>
    /\ portfolio_tax_rates = <<>>
    /\ gross_calendar = EmptyCalendar
    /\ monthly_dividends = EmptyCalendar
    /\ holding_status = NoStatus
    /\ tab_result = "idle"
    /\ summary = NoSummary

NextBatch ==
    \/ ProcessTickersBatch
    \/ ProcessUpdateAllAssets
    \/ ProcessAutoSearch
    \/ AutoSearchNewAssetsTab

(***************************************************************************)
(* The methods of the assets table called one after another on a database  *)
(* that starts empty.  store.last remembers, for every symbol, the asset   *)
(* data of its latest upsert that returned True, until the symbol is       *)
(* deleted; store.op, store.arg and store.got are the latest call, its     *)
(* asset data and what it returned.                                        *)
(***************************************************************************)
\* asset data upsert_asset may be given for a symbol: the analyser's
\* profiles, one without a name, one that carries platforms
StoreData(sym) ==
    { Metrics(sym, "name", 100000, 2000, 2000, "trimestral", <<3, 6, 9, 12>>),
      Metrics(sym, "other name", 100000, 500, 500, "irregular", <<12>>),
      Metrics(sym, "name", 50000, 1500, 3000, "trimestral", <<10, 11, 12>>),
      Metrics(sym, "name", 50000, 0, 0, "sin_dividendos", <<>>),
      Metrics(sym, None, 100000, 2000, 2000, "trimestral", <<3, 6, 9, 12>>),
      Metrics(sym, "name", 100000, 2000, 2000, "trimestral", <<3, 6, 9, 12>>)
          @@ [platforms |-> "IBKR"] }

\* ', '.join(...) of the lists update_platforms may be given
PlatformTexts == {"PREX"}

\* the dictionary of a row as get_asset and its like return it
AssetOf(row) ==
    [row EXCEPT !.dividend_payment_months = ParsePaymentMonths(@)]

\* DatabaseManager.get_asset(symbol): the set holding the dictionary
\* returned, empty when it returns None
GetAsset(table, symbol) ==
    IF symbol \in DOMAIN table THEN {AssetOf(table[symbol])} ELSE {}

DeleteAsset_All(table, symbol) ==
    [ok |-> symbol \in DOMAIN table, table |-> <<>>]

\* DatabaseManager.delete_asset(symbol)
DeleteAsset(table, symbol) ==
    [ok |-> symbol \in DOMAIN table,
     table |-> [s \in DOMAIN table \ {symbol} |-> table[s]]]

\* DatabaseManager.update_platforms(symbol, platforms)
UpdatePlatforms(table, symbol, platforms_str) ==
    IF symbol \in DOMAIN table
    THEN [ok |-> TRUE, table |-> [table EXCEPT ![symbol].platforms = platforms_str]]
    ELSE [ok |-> FALSE, table |-> table]

\* whether the decimal writing of month occurs in that of the number v
WrittenIn(month, v) ==
    \/ v = month
    \/ month < 10 /\ v >= 10 /\ (v \div 10 = month \/ v % 10 = month)

MonthMatches_Like(month, months_str) ==
    \E j \in DOMAIN months_str :
        months_str[j].digits /\ months_str[j].decimal /\ WrittenIn(month, months_str[j].value)

\* month in self._parse_payment_months(months_str)
MonthMatches(month, months_str) ==
    month \in Range(ParsePaymentMonths(months_str))

\* the months asked for: January and February, whose writing occurs in
\* that of later months, and December
QueryMonths == {1, 2, 12}

\* DatabaseManager.get_assets_by_payment_month(month)
GetAssetsByPaymentMonth(table, month) ==
    LET rows == OrderByYield(table, {sym \in DOMAIN table :
                                        table[sym].dividend_payment_months # <<>>})
        kept == SelectSeq(rows, LAMBDA row : MonthMatches(month, row.dividend_payment_months))
    IN  [i \in DOMAIN kept |-> AssetOf(kept[i])]

\* FinancialVisualizer._asset_has_payment_month(asset, month), for an asset
\* whose months are the text of the table or the parsed list
AssetHasPaymentMonth(months_data, is_list, month) ==
    IF months_data = <<>> THEN FALSE
    ELSE IF is_list THEN month \in Range(months_data)
    ELSE month \in {months_data[j].value :
                       j \in {k \in DOMAIN months_data :
                                  /\ months_data[k].digits /\ months_data[k].decimal
                                  /\ months_data[k].value \in 1..12}}
              /\ \A j \in DOMAIN months_data :
                     months_data[j].digits => months_data[j].decimal

StoreCall(op, symbol, arg, ok, got) ==
    [store EXCEPT !.op = op, !.symbol = symbol, !.arg = arg, !.ok = ok, !.got = got]

\* db.upsert_asset(asset_data)
UpsertAssetCall ==
    /\ store.state = "open" /\ store.ops < MaxOps
    /\ \E sym \in Range(Symbols) : \E asset_data \in StoreData(sym) :
          LET r == UpsertAsset(assets_table, asset_data, store.ops) IN
          /\ assets_table' = r.table
          /\ store' = [StoreCall("upsert", sym, {asset_data}, r.ok, {})
                          EXCEPT !.ops = @ + 1,
                                 !.last = IF r.ok
                                          THEN [s \in DOMAIN @ \cup {sym} |->
                                                   IF s = sym THEN asset_data ELSE @[s]]
                                          ELSE @]
    /\ UNCHANGED <<batch, call, codec, portfolios, selection, cache>>
    /\ UNCHANGED analyzerVars
    /\ UNCHANGED sessionVars

\* db.delete_asset(symbol)
DeleteAssetCall ==
    /\ store.state = "open" /\ store.ops < MaxOps
    /\ \E sym \in Range(Symbols) :
          LET r == DeleteAsset(assets_table, sym) IN
          /\ assets_table' = r.table
          /\ store' = [StoreCall("delete", sym, {}, r.ok, {})
                          EXCEPT !.ops = @ + 1,
                                 !.last = [s \in DOMAIN @ \ {sym} |-> @[s]]]
    /\ UNCHANGED <<batch, call, codec, portfolios, selection, cache>>
    /\ UNCHANGED analyzerVars
    /\ UNCHANGED sessionVars

\* db.update_platforms(symbol, platforms)
UpdatePlatformsCall ==
    /\ store.state = "open" /\ store.ops < MaxOps
    /\ \E sym \in Range(Symbols), platforms_str \in PlatformTexts :
          LET r == UpdatePlatforms(assets_table, sym, platforms_str) IN
          /\ assets_table' = r.table
          /\ store' = [StoreCall("platforms", sym, {}, r.ok, {}) EXCEPT !.ops = @ + 1]
    /\ UNCHANGED <<batch, call, codec, portfolios, selection, cache>>
    /\ UNCHANGED analyzerVars
    /\ UNCHANGED sessionVars

\* db.get_asset(symbol)
GetAssetCall ==
    /\ store.state = "open"
    /\ \E sym \in Range(Symbols) :
          store' = StoreCall("get", sym, {}, TRUE, GetAsset(assets_table, sym))
    /\ UNCHANGED <<assets_table, batch, call, codec, portfolios, selection, cache>>
    /\ UNCHANGED analyzerVars
    /\ UNCHANGED sessionVars

\* db.get_assets_by_payment_month(month)
GetAssetsByPaymentMonthCall ==
    /\ store.state = "open"
    /\ \E month \in QueryMonths :
          store' = [StoreCall("by_month", None, {}, TRUE, {})
                      EXCEPT !.month = month,
                             !.by_month = GetAssetsByPaymentMonth(assets_table, month)]
    /\ UNCHANGED <<assets_table, batch, call, codec, portfolios, selection, cache>>
    /\ UNCHANGED analyzerVars
    /\ UNCHANGED sessionVars

InitStore ==
    /\ assets_table = <<>>
    /\ store = [state |-> "open", ops |-> 0, last |-> <<>>, op |-> "none",
                symbol |-> None, arg |-> {}, ok |-> TRUE, got |-> {},
                month |-> 0, by_month |-> <<>>]
    /\ portfolio_selected = <<>>
    /\ portfolio_shares = <<>>
    /\ portfolio_tax_rates = <<>>
    /\ gross_calendar = EmptyCalendar
    /\ monthly_dividends = EmptyCalendar
    /\ holding_status = NoStatus
    /\ tab_result = "idle"
    /\ summary = NoSummary

NextStore ==
    \/ UpsertAssetCall
    \/ DeleteAssetCall
    \/ UpdatePlatformsCall
    \/ GetAssetCall
    \/ GetAssetsByPaymentMonthCall

(***************************************************************************)
(* The portfolios table: rows with an AUTOINCREMENT id and a UNIQUE name,  *)
(* the three collections of a portfolio kept as JSON texts.  A JSON array  *)
(* of strings is the sequence of its strings; a JSON object is the         *)
(* function from its keys to its values, a number being JsonNumber(v).     *)
(* portfolios.last remembers, for every name, what its latest save that    *)
(* returned True was given, until the name is deleted.                     *)
(***************************************************************************)
\* json.dumps of a dictionary of numbers
JsonDumps(data) == [k \in DOMAIN data |-> JsonNumber(data[k])]

\* json.loads of the text of such a dictionary
JsonLoads(text) == [k \in DOMAIN text |-> text[k].value]

PortfolioNames == {"Conservador", "Renta", None}

Portfolio(selected_symbols, shares_data, tax_rates_data) ==
    [selected_symbols |-> selected_symbols, shares_data |-> shares_data,
     tax_rates_data |-> tax_rates_data]

\* what the session may hold when a portfolio is saved
PortfolioPool ==
    { Portfolio(<<"AAA">>, [s \in {"AAA"} |-> 1], [s \in {"AAA"} |-> 150]),
      Portfolio(<<"AAA", "BBB">>,
                [s \in {"AAA", "BBB"} |-> IF s = "AAA" THEN 2 ELSE 0],
                [s \in {"AAA", "BBB"} |-> IF s = "AAA" THEN 0 ELSE 1500]),
      Portfolio(<<"BBB">>, <<>>, <<>>) }

PortfolioRow(id, name, data) ==
    [id |-> id, name |-> name, selected_symbols |-> data.selected_symbols,
     shares_data |-> JsonDumps(data.shares_data),
     tax_rates_data |-> JsonDumps(data.tax_rates_data)]

SavePortfolio_KeepExisting(rows, next_id, name, data) ==
    IF name = None THEN [ok |-> FALSE, rows |-> rows, next_id |-> next_id]
    ELSE IF \E row \in rows : row.name = name
    THEN [ok |-> TRUE, rows |-> rows, next_id |-> next_id]
    ELSE [ok |-> TRUE, rows |-> rows \cup {PortfolioRow(next_id, name, data)},
          next_id |-> next_id + 1]

\* DatabaseManager.save_portfolio(name, description, selected_symbols,
\* shares_data, tax_rates_data): a name of None breaks NOT NULL
SavePortfolio(rows, next_id, name, data) ==
    IF name = None THEN [ok |-> FALSE, rows |-> rows, next_id |-> next_id]
    ELSE IF \E row \in rows : row.name = name
    THEN [ok |-> TRUE,
          rows |-> {IF row.name = name THEN PortfolioRow(row.id, name, data) ELSE row :
                       row \in rows},
          next_id |-> next_id]
    ELSE [ok |-> TRUE, rows |-> rows \cup {PortfolioRow(next_id, name, data)},
          next_id |-> next_id + 1]

\* DatabaseManager.get_portfolio(name): the set holding the dictionary
\* returned, empty when it returns None
GetPortfolio(rows, name) ==
    {[id |-> row.id, name |-> row.name, selected_symbols |-> row.selected_symbols,
      shares_data |-> JsonLoads(row.shares_data),
      tax_rates_data |-> JsonLoads(row.tax_rates_data)] :
        row \in {r \in rows : name # None /\ r.name = name}}

\* DatabaseManager.delete_portfolio(name)
DeletePortfolio(rows, name) ==
    [ok |-> \E row \in rows : name # None /\ row.name = name,
     rows |-> {row \in rows : name = None \/ row.name # name}]

PortfolioCall(op, name, ok, got) ==
    [portfolios EXCEPT !.op = op, !.name = name, !.ok = ok, !.got = got]

\* db.save_portfolio(...)
SavePortfolioCall ==
    /\ portfolios.state = "open" /\ portfolios.ops < MaxOps
    /\ \E name \in PortfolioNames, data \in PortfolioPool :
          LET r == SavePortfolio(portfolios.rows, portfolios.next_id, name, data) IN
          portfolios' = [PortfolioCall("save", name, r.ok, {})
                           EXCEPT !.ops = @ + 1, !.rows = r.rows, !.next_id = r.next_id,
                                  !.last = IF r.ok
                                           THEN [n \in DOMAIN @ \cup {name} |->
                                                    IF n = name THEN data ELSE @[n]]
                                           ELSE @]
    /\ UNCHANGED <<batch, call, codec, store, selection, cache>>
    /\ UNCHANGED analyzerVars
    /\ UNCHANGED calendarVars

\* db.delete_portfolio(name)
DeletePortfolioCall ==
    /\ portfolios.state = "open" /\ portfolios.ops < MaxOps
    /\ \E name \in PortfolioNames :
          LET r == DeletePortfolio(portfolios.rows, name) IN
          portfolios' = [PortfolioCall("delete", name, r.ok, {})
                           EXCEPT !.ops = @ + 1, !.rows = r.rows,
                                  !.last = [n \in DOMAIN @ \ {name} |-> @[n]]]
    /\ UNCHANGED <<batch, call, codec, store, selection, cache>>
    /\ UNCHANGED analyzerVars
    /\ UNCHANGED calendarVars

\* db.get_portfolio(name)
GetPortfolioCall ==
    /\ portfolios.state = "open"
    /\ \E name \in PortfolioNames :
          portfolios' = PortfolioCall("get", name, TRUE, GetPortfolio(portfolios.rows, name))
    /\ UNCHANGED <<batch, call, codec, store, selection, cache>>
    /\ UNCHANGED analyzerVars
    /\ UNCHANGED calendarVars

InitPortfolios ==
    portfolios = [state |-> "open", ops |-> 0, rows |-> {}, next_id |-> 1,
                  last |-> <<>>, op |-> "none", name |-> None, ok |-> TRUE, got |-> {}]

NextPortfolios == SavePortfolioCall \/ DeletePortfolioCall \/ GetPortfolioCall

(***************************************************************************)
(* The selection tab of the portfolio page.  Each run of the tab reads the *)
(* three filter widgets, offers the assets that pass them in a multiselect *)
(* and writes the session.  The multiselect returns labels of its options: *)
(* those the user picked, or its default when the user leaves it alone.    *)
(* The number inputs of shares and tax are left at the values they show.   *)
(* The page is run again each time the user changes one widget.            *)
(***************************************************************************)
SelectionRow(sym, freq, yld, platforms) ==
    StoredRow(Metrics(sym, "name", 100000, yld, yld, freq, <<>>), platforms, 0)

\* the assets stored when the tab is used
SelectionTable ==
    [sym \in {"AAA", "BBB", "CCC"} |->
        IF sym = "AAA" THEN SelectionRow(sym, "mensual", 6000, "PREX")
        ELSE IF sym = "BBB" THEN SelectionRow(sym, "trimestral", 2000, None)
        ELSE SelectionRow(sym, "irregular", 500, "PREX, IBKR")]

\* ORDER BY dividend_yield DESC over SelectionTable
TableOrder == <<"AAA", "BBB", "CCC">>

\* the platform names a platforms text holds
PlatformNames(platforms) ==
    IF platforms = "PREX, IBKR" THEN {"PREX", "IBKR"}
    ELSE IF platforms \in {None, ""} THEN {}
    ELSE {platforms}

PlatformOptions == {"Todas", "Sin plataforma", "PREX", "IBKR"}
FrequencyOptions == {"Todas", "mensual", "trimestral", "irregular"}
\* thousandths of a per cent: 0 %, 1 %, 5 %
MinYieldOptions == {0, 1000, 5000}

\* filtered_assets: the symbols of the assets that pass the three filters
FilteredAssets(table, filter_platform, filter_freq, min_yield) ==
    LET by_platform ==
            IF filter_platform = "Todas" THEN DOMAIN table
            ELSE IF filter_platform = "Sin plataforma"
            THEN {sym \in DOMAIN table : PlatformNames(table[sym].platforms) = {}}
            ELSE {sym \in DOMAIN table :
                     /\ filter_platform \in PlatformNames(table[sym].platforms)
                     /\ filter_freq = "Todas"
                            \/ table[sym].dividend_frequency = filter_freq}
        by_freq ==
            IF filter_freq # "Todas" /\ filter_platform = "Todas"
            THEN {sym \in by_platform : table[sym].dividend_frequency = filter_freq}
            ELSE by_platform
    IN  IF min_yield > 0
        THEN {sym \in by_freq : table[sym].dividend_yield >= min_yield}
        ELSE by_freq

\* default_labels: the selected symbols that have a label among the options
DefaultLabels(selected, options) == SelectSeq(selected, LAMBDA sym : sym \in options)

\* what the tab leaves in portfolio_selected, given what the multiselect
\* returned
NewSelected(loaded_name, current_selected, selected) ==
    IF loaded_name # None \/ Range(current_selected) # Range(selected)
    THEN current_selected
    ELSE selected

\* dict[symbol] = value of the number input, which shows dict.get(symbol, 0)
InputsWritten(dict, syms) ==
    [sym \in DOMAIN dict \cup syms |-> IF sym \in DOMAIN dict THEN dict[sym] ELSE 0]

\* the run follows the change of at most one of the filters, or a pick in
\* the multiselect with the filters as they were
OneWidgetChanged(filter_platform, filter_freq, min_yield, touched) ==
    LET changed == {w \in {"platform", "freq", "yield"} :
                       \/ w = "platform" /\ filter_platform # selection.filter_platform
                       \/ w = "freq" /\ filter_freq # selection.filter_freq
                       \/ w = "yield" /\ min_yield # selection.min_yield}
    IN  IF touched THEN changed = {} ELSE Cardinality(changed) <= 1

\* _portfolio_selection_tab()
PortfolioSelectionTab ==
    /\ selection.state = "open"
    /\ \E filter_platform \in PlatformOptions, filter_freq \in FrequencyOptions,
          min_yield \in MinYieldOptions, touched \in BOOLEAN,
          picked \in SUBSET DOMAIN assets_table :
          LET options == FilteredAssets(assets_table, filter_platform, filter_freq, min_yield)
              selected_labels ==
                  IF touched
                  THEN SelectSeq(TableOrder, LAMBDA sym : sym \in picked \cap options)
                  ELSE DefaultLabels(portfolio_selected, options)
              selected == NewSelected(selection.loaded_name, selected_labels,
                                      portfolio_selected)
              selected_assets == options \cap Range(selected)
              missing_symbols == SelectSeq(selected, LAMBDA sym : sym \notin options)
              filters == [selection EXCEPT !.filter_platform = filter_platform,
                                           !.filter_freq = filter_freq,
                                           !.min_yield = min_yield,
                                           !.touched = touched,
                                           !.before = portfolio_selected,
                                           !.missing_symbols = <<>>]
          IN  /\ touched \/ picked = {}
              /\ OneWidgetChanged(filter_platform, filter_freq, min_yield, touched)
              /\ IF DOMAIN assets_table = {}
                 THEN /\ selection' = [filters EXCEPT !.shown = "no_assets"]
                      /\ UNCHANGED <<portfolio_selected, portfolio_shares,
                                     portfolio_tax_rates>>
                 ELSE IF options = {}
                 THEN /\ selection' = [filters EXCEPT !.shown = "no_options"]
                      /\ UNCHANGED <<portfolio_selected, portfolio_shares,
                                     portfolio_tax_rates>>
                 ELSE /\ portfolio_selected' = selected
                      /\ selection' =
                             [filters EXCEPT
                                 !.missing_symbols = missing_symbols,
                                 !.shown = IF selected = <<>> THEN "nothing_selected"
                                           ELSE IF selected_assets = {} THEN "not_found"
                                           ELSE "table"]
                      /\ portfolio_shares' = InputsWritten(portfolio_shares, selected_assets)
                      /\ portfolio_tax_rates' =
                             InputsWritten(portfolio_tax_rates, selected_assets)
    /\ UNCHANGED <<assets_table, gross_calendar, monthly_dividends, holding_status,
                   tab_result, summary>>
    /\ UNCHANGED analyzerVars
    /\ UNCHANGED <<call, batch, store, codec, portfolios, cache>>

\* the portfolios the saved tab may load
SavedPortfolios ==
    { Portfolio(<<"AAA", "BBB", "CCC">>, [sym \in {"AAA", "BBB", "CCC"} |-> 1],
                [sym \in {"AAA", "BBB", "CCC"} |-> 150]),
      Portfolio(<<"CCC", "AAA">>, [sym \in {"AAA", "CCC"} |-> 1], <<>>) }

\* the button 'Cargar' of the saved tab: the session takes the stored
\* portfolio and the page is run again
PortfolioSavedTabLoad ==
    /\ selection.state = "open"
    /\ \E portfolio \in SavedPortfolios :
          /\ portfolio_selected' = portfolio.selected_symbols
          /\ portfolio_shares' = portfolio.shares_data
          /\ portfolio_tax_rates' = portfolio.tax_rates_data
          /\ selection' = [selection EXCEPT !.loaded_name = "Renta", !.shown = "none",
                                            !.touched = FALSE, !.before = <<>>,
                                            !.missing_symbols = <<>>]
    /\ UNCHANGED <<assets_table, gross_calendar, monthly_dividends, holding_status,
                   tab_result, summary>>
    /\ UNCHANGED analyzerVars
    /\ UNCHANGED <<call, batch, store, codec, portfolios, cache>>

InitSelection ==
    /\ assets_table = SelectionTable
    /\ portfolio_selected = <<>>
    /\ portfolio_shares = <<>>
    /\ portfolio_tax_rates = <<>>
    /\ gross_calendar = EmptyCalendar
    /\ monthly_dividends = EmptyCalendar
    /\ holding_status = NoStatus
    /\ tab_result = "idle"
    /\ summary = NoSummary
    /\ selection = [state |-> "open", loaded_name |-> None,
                    filter_platform |-> "Todas", filter_freq |-> "Todas",
                    min_yield |-> 0, touched |-> FALSE, before |-> <<>>,
                    missing_symbols |-> <<>>, shown |-> "none"]

NextSelection == PortfolioSelectionTab \/ PortfolioSavedTabLoad

(***************************************************************************)
(* The symbol cache of the importer: the file symbols_cache.json, absent,  *)
(* unreadable, or holding a date and a list of symbols.  cache.now is the  *)
(* wall clock in ticks, TicksPerDay to the day.                            *)
(***************************************************************************)
NoFile == [kind |-> "absent", date |-> 0, symbols |-> <<>>]
Unreadable == [kind |-> "unreadable", date |-> 0, symbols |-> <<>>]
CacheFile(date, symbols) == [kind |-> "ok", date |-> date, symbols |-> symbols]

\* (datetime.now() - cache_date).days
DaysOld(date, now) == (now - date) \div TicksPerDay

\* StockImporter.get_cached_symbols(): found is FALSE when it returns None
GetCachedSymbols(file, now) ==
    IF file.kind # "ok" THEN [found |-> FALSE, symbols |-> <<>>]
    ELSE IF DaysOld(file.date, now) > CacheExpiryDays
    THEN [found |-> FALSE, symbols |-> <<>>]
    ELSE [found |-> TRUE, symbols |-> file.symbols]

\* StockImporter.save_symbols_to_cache(symbols)
SaveSymbolsToCache(symbols, now) == CacheFile(now, symbols)

\* what the exchanges may list, in ascending order
ExchangeLists == {<<>>, <<"AAA", "BBB">>, <<"BBB", "CCC">>}

\* the symbols validate_symbol accepts
ValidSymbols == {"AAA", "CCC"}

\* StockImporter.validate_symbols_batch(symbols)
ValidateSymbolsBatch(symbols) == SelectSeq(symbols, LAMBDA sym : sym \in ValidSymbols)

\* StockImporter.get_all_available_symbols(validate, use_cache, exchanges),
\* the exchanges listing the symbols listed
GetAllAvailableSymbols(file, now, validate, use_cache, listed) ==
    LET cached_symbols == GetCachedSymbols(file, now)
        fetched == IF validate THEN ValidateSymbolsBatch(listed) ELSE listed
    IN  IF use_cache /\ cached_symbols.found /\ cached_symbols.symbols # <<>>
        THEN [symbols |-> cached_symbols.symbols, consulted |-> FALSE, file |-> file]
        ELSE [symbols |-> fetched, consulted |-> TRUE,
              file |-> IF use_cache THEN SaveSymbolsToCache(fetched, now) ELSE file]

\* importer.get_all_available_symbols(...)
GetAllAvailableSymbolsCall ==
    /\ cache.state = "open"
    /\ \E validate \in BOOLEAN, use_cache \in BOOLEAN, listed \in ExchangeLists :
          LET r == GetAllAvailableSymbols(cache.file, cache.now, validate, use_cache, listed)
          IN  cache' = [cache EXCEPT !.op = "get", !.use_cache = use_cache,
                                     !.before = cache.file, !.file = r.file,
                                     !.fetched = IF validate THEN ValidateSymbolsBatch(listed)
                                                 ELSE listed,
                                     !.consulted = r.consulted, !.result = r.symbols]
    /\ UNCHANGED <<batch, call, store, codec, portfolios, selection>>
    /\ UNCHANGED analyzerVars
    /\ UNCHANGED calendarVars

\* the wall clock moves on by one tick
CacheClockTick ==
    /\ cache.state = "open"
    /\ cache.now < MaxCacheDays * TicksPerDay
    /\ cache' = [cache EXCEPT !.now = @ + 1, !.op = "none"]
    /\ UNCHANGED <<batch, call, store, codec, portfolios, selection>>
    /\ UNCHANGED analyzerVars
    /\ UNCHANGED calendarVars

InitCache ==
    cache \in {[state |-> "open", now |-> 0, file |-> f, op |-> "none",
                use_cache |-> FALSE, before |-> f, fetched |-> <<>>,
                consulted |-> FALSE, result |-> <<>>] :
                  f \in {NoFile, Unreadable, CacheFile(0, <<>>), CacheFile(0, <<"AAA">>)}}

NextCache == GetAllAvailableSymbolsCall \/ CacheClockTick

(***************************************************************************)
(* The two conversions of the payment months by themselves: a list of      *)
(* months is formatted and parsed back, a text is parsed.                  *)
(***************************************************************************)
\* tokens a months text may hold between its commas
TokenPool == {Num(0), Num(1), Num(3), Num(12), Num(13), Txt, DigitNotDecimal}

\* the lists of at most n elements of S
ListsUpTo(S, n) == UNION {[1..k -> S] : k \in 0..n}

MonthLists == ListsUpTo({1, 3, 12}, MaxTokens)
Texts == ListsUpTo(TokenPool, MaxTokens)

\* self._parse_payment_months(months_str)
ParsePaymentMonthsCall ==
    /\ codec.state = "text"
    /\ codec' = [codec EXCEPT !.state = "parsed",
                              !.result = ParsePaymentMonths(codec.text)]
    /\ UNCHANGED <<batch, call, store, portfolios, selection, cache>>
    /\ UNCHANGED analyzerVars
    /\ UNCHANGED calendarVars

\* self._parse_payment_months(self._format_payment_months(months))
FormatThenParseCall ==
    /\ codec.state = "months"
    /\ codec' = [codec EXCEPT !.state = "round_trip",
                              !.text = FormatPaymentMonths(codec.months),
                              !.result = ParsePaymentMonths(FormatPaymentMonths(codec.months))]
    /\ UNCHANGED <<batch, call, store, portfolios, selection, cache>>
    /\ UNCHANGED analyzerVars
    /\ UNCHANGED calendarVars

InitCodec ==
    codec \in {[state |-> "text", months |-> <<>>, text |-> t, result |-> <<>>] : t \in Texts}
              \cup {[state |-> "months", months |-> m, text |-> <<>>, result |-> <<>>] :
                        m \in MonthLists}

NextCodec == ParsePaymentMonthsCall \/ FormatThenParseCall

\* no call of the aggregator by itself and no batch under way
NoCall == [state |-> "idle"]
NoBatch == [state |-> "idle"]
NoStore == [state |-> "idle"]
NoCodec == [state |-> "idle"]
NoPortfolios == [state |-> "idle"]
NoSelection == [state |-> "idle"]
NoCache == [state |-> "idle"]

IdleStore == store = NoStore
IdleCodec == codec = NoCodec
IdlePortfolios == portfolios = NoPortfolios
IdleSelection == selection = NoSelection
IdleCache == cache = NoCache
IdleLater == IdleStore /\ IdleCodec /\ IdlePortfolios /\ IdleSelection /\ IdleCache
IdleOthers == call = NoCall /\ batch = NoBatch /\ IdleLater

NextAnalyzer == GetAssetMetrics \/ GetAssetMetricsAgain

\* the analyser applied to every history of the feed
InitAnalyzerRun == InitAnalyzer /\ IdleCalendar /\ IdleOthers

SpecAnalyzer == InitAnalyzerRun /\ [][NextAnalyzer]_vars

\* the calendar tab applied to every stored portfolio over every assets table
InitCalendarRun == IdleAnalyzer /\ InitCalendar /\ IdleOthers

SpecCalendar == InitCalendarRun /\ [][NextCalendar]_vars

\* the aggregator applied to every list of assets and shares dictionary
InitAggregatorRun == IdleAnalyzer /\ InitAggregator /\ batch = NoBatch /\ IdleLater

SpecAggregator == InitAggregatorRun /\ [][NextAggregator]_vars

\* every batch over every feed and every table
InitBatchRun == IdleAnalyzer /\ InitBatch /\ call = NoCall /\ IdleLater

SpecBatch == InitBatchRun /\ [][NextBatch]_vars

\* every sequence of calls on the assets table
InitStoreRun ==
    /\ IdleAnalyzer /\ InitStore /\ call = NoCall /\ batch = NoBatch
    /\ IdleCodec /\ IdlePortfolios /\ IdleSelection /\ IdleCache

SpecStore == InitStoreRun /\ [][NextStore]_vars

\* every sequence of calls on the portfolios table
InitPortfoliosRun ==
    /\ IdleAnalyzer /\ IdleCalendar /\ call = NoCall /\ batch = NoBatch
    /\ IdleStore /\ IdleCodec /\ IdleSelection /\ IdleCache
    /\ InitPortfolios

SpecPortfolios == InitPortfoliosRun /\ [][NextPortfolios]_vars

\* every use of the selection tab and of the load button
InitSelectionRun ==
    /\ IdleAnalyzer /\ InitSelection /\ call = NoCall /\ batch = NoBatch
    /\ IdleStore /\ IdleCodec /\ IdlePortfolios /\ IdleCache

SpecSelection == InitSelectionRun /\ [][NextSelection]_vars

\* the importer called at any time over any cache file
InitCacheRun ==
    /\ IdleAnalyzer /\ IdleCalendar /\ call = NoCall /\ batch = NoBatch
    /\ IdleStore /\ IdleCodec /\ IdlePortfolios /\ IdleSelection
    /\ InitCache

SpecCache == InitCacheRun /\ [][NextCache]_vars

\* every months text and every months list put through the conversions
InitCodecRun ==
    /\ IdleAnalyzer /\ IdleCalendar /\ call = NoCall /\ batch = NoBatch
    /\ IdleStore /\ IdlePortfolios /\ IdleSelection /\ IdleCache
    /\ InitCodec

SpecCodec == InitCodecRun /\ [][NextCodec]_vars

(***************************************************************************)
(* Claims about the analyser.                                              *)
(***************************************************************************)
\* the calendar dates of the events of the trailing 365 days, as of now
WindowDates(series, now) ==
    {e.ts \div TicksPerDay : e \in {x \in series : x.ts >= now - 365 * TicksPerDay}}

Analysed == analysis.returned = "metrics" /\ ~analysis.raised

\* C1: with payment_count the number of distinct calendar dates paid inside
\* the trailing 365-day window, the classifier answers 'mensual' when
\* payment_count >= 10, 'trimestral' when 3 <= payment_count <= 9 and
\* 'irregular' when 1 <= payment_count <= 2.
C1_CadenceThresholds ==
    Analysed =>
        LET payment_count == Cardinality(WindowDates(dividends, analysis.now1)) IN
        /\ payment_count >= 10 => metrics.dividend_frequency = "mensual"
        /\ (3 <= payment_count /\ payment_count <= 9)
               => metrics.dividend_frequency = "trimestral"
        /\ (1 <= payment_count /\ payment_count <= 2)
               => metrics.dividend_frequency = "irregular"

\* a history with exactly ten distinct dates in the window, two events of
\* which share a date, was classified 'mensual'
C1_Witness ==
    /\ Analysed
    /\ Cardinality(WindowDates(dividends, analysis.now1)) = 10
    /\ Cardinality({e \in dividends : e.ts >= CutoffDate(analysis.now1)}) = 11
    /\ metrics.dividend_frequency = "mensual"

\* C2: a history that is empty, or whose events are all older than the
\* cutoff, gives the profile 'sin_dividendos' with no payment months and an
\* annual dividend of 0.
C2_StaleHistoryIsNone ==
    (Analysed /\ \A e \in dividends : e.ts < analysis.now1 - 365 * TicksPerDay) =>
        /\ metrics.dividend_frequency = "sin_dividendos"
        /\ metrics.dividend_payment_months = <<>>
        /\ metrics.annual_dividend = 0

\* a history that is not empty but entirely stale was analysed
C2_Witness ==
    /\ Analysed
    /\ dividends # {}
    /\ \A e \in dividends : e.ts < analysis.now1 - 365 * TicksPerDay
    /\ metrics.dividend_frequency = "sin_dividendos"

\* C3: in every profile get_asset_metrics returns, payment_months is
\* non-empty if and only if the cadence is not 'sin_dividendos'.
C3_MonthsIffCadence ==
    Analysed =>
        (metrics.dividend_payment_months # <<>>
            <=> metrics.dividend_frequency # "sin_dividendos")

\* the profiles of the calls whose frequency analysis ended in its except
\* branch break the equivalence as well
MonthsIffCadenceAfterException ==
    (analysis.returned = "metrics" /\ analysis.raised) =>
        (metrics.dividend_payment_months # <<>>
            <=> metrics.dividend_frequency # "sin_dividendos")

\* the direction the two cutoffs cannot break: a profile with payment months
\* has a cadence
MonthsImplyCadence ==
    Analysed =>
        (metrics.dividend_payment_months # <<>>
            => metrics.dividend_frequency # "sin_dividendos")

\* the events of the history at or after the instant 365 days before as_of
InWindow(as_of) == {e \in dividends : e.ts >= as_of - 365 * TicksPerDay}

\* the events older than that
Stale(as_of) == {e \in dividends : e.ts < as_of - 365 * TicksPerDay}

\* C14: only the events with payment_date >= as_of - 365 days, the boundary
\* included, bear on the result: with any of the older events taken out of
\* the history, the cadence, the payment months and the annual dividend of
\* the profile are the same.
C14_OnlyWindowEventsCount ==
    Analysed =>
        \A old \in SUBSET Stale(analysis.now1) :
            BuildMetrics(dividends \ old, analysis.now1, analysis.now2, FALSE) = metrics

\* a history with a payment at the cutoff instant itself and two older
\* ones was analysed, and the payment at the cutoff was the third counted
C14_Witness ==
    /\ Analysed
    /\ Cardinality(Stale(analysis.now1)) >= 2
    /\ \E e \in dividends : e.ts = analysis.now1 - 365 * TicksPerDay
    /\ Cardinality(InWindow(analysis.now1)) = 3
    /\ metrics.dividend_frequency = "trimestral"
    /\ Len(metrics.dividend_payment_months) = 3

\* C15: payment_count is the number of distinct calendar dates among the
\* in-window events; payments of one day count once, so that the cadence is
\* that of the dates and not of the events.
C15_PaymentCountIsDistinctDates ==
    (Analysed /\ InWindow(analysis.now1) # {}) =>
        LET dates == {e.ts \div TicksPerDay : e \in InWindow(analysis.now1)} IN
        /\ analysis.payment_count = Cardinality(dates)
        /\ metrics.dividend_frequency =
               IF Cardinality(dates) >= 10 THEN "mensual"
               ELSE IF Cardinality(dates) >= 3 THEN "trimestral"
               ELSE "irregular"

\* ten payments on nine days, two of them at different times of one day,
\* were counted as nine and classified 'trimestral'
C15_Witness ==
    /\ Analysed
    /\ Cardinality(InWindow(analysis.now1)) = 10
    /\ \E e, f \in InWindow(analysis.now1) :
          e.ts # f.ts /\ e.ts \div TicksPerDay = f.ts \div TicksPerDay
    /\ analysis.payment_count = 9
    /\ metrics.dividend_frequency = "trimestral"

RECURSIVE SumOfAmounts(_)
\* the sum of the amounts of a set of events, in mills
SumOfAmounts(E) ==
    IF E = {} THEN 0
    ELSE LET e == CHOOSE x \in E : TRUE IN e.amount + SumOfAmounts(E \ {e})

\* twelve payments of 0.25 on twelve dates of twelve different months
ScenarioA ==
    /\ Cardinality(dividends) = 12
    /\ \A e \in dividends : e.amount = 250
    /\ InWindow(analysis.now2) = dividends
    /\ Cardinality({e.ts \div TicksPerDay : e \in dividends}) = 12

\* C16: the annual dividend per share is the sum of the amounts of all the
\* in-window events, those of one day included each; twelve monthly
\* payments of 0.25 give 'mensual', the months 1..12 and 3.00.
C16_AnnualIsSumOfWindow ==
    Analysed =>
        /\ metrics.annual_dividend = SumOfAmounts(InWindow(analysis.now2))
        /\ ScenarioA =>
              /\ metrics.dividend_frequency = "mensual"
              /\ metrics.dividend_payment_months
                     = <<1, 2, 3, 4, 5, 6, 7, 8, 9, 10, 11, 12>>
              /\ metrics.annual_dividend = 3000

\* what the code returns is the sum rounded to the cent, ties to even
AnnualIsRoundedSumOfWindow ==
    Analysed =>
        LET total == SumOfAmounts(InWindow(analysis.now2))
            cents == total \div 10
            rest == total % 10
        IN  metrics.annual_dividend =
               IF rest < 5 \/ (rest = 5 /\ cents % 2 = 0) THEN 10 * cents
               ELSE 10 * (cents + 1)

\* the twelve monthly payments of the scenario gave 'mensual', 1..12, 3.00
ScenarioAProfile ==
    /\ Analysed /\ ScenarioA
    /\ metrics.dividend_frequency = "mensual"
    /\ metrics.dividend_payment_months = <<1, 2, 3, 4, 5, 6, 7, 8, 9, 10, 11, 12>>
    /\ metrics.annual_dividend = 3000

\* two payments of one day were both summed
SameDayPaymentsSummed ==
    /\ Analysed
    /\ \E e, f \in InWindow(analysis.now2) :
          e.id # f.id /\ e.ts \div TicksPerDay = f.ts \div TicksPerDay
    /\ Cardinality({e.ts \div TicksPerDay : e \in InWindow(analysis.now2)}) = 1
    /\ metrics.annual_dividend = 350

\* the month 1..12 of a day counted from 2024-01-01, by the first days of
\* the months of 2024 (a leap year) and 2025
MonthOfDay(day) ==
    LET firsts == <<0, 31, 60, 91, 121, 152, 182, 213, 244, 274, 305, 335,
                    366, 397, 425, 456, 486, 517, 547, 578, 609, 639, 670, 700>>
        k == CHOOSE i \in 1..24 :
                 firsts[i] <= day /\ (i = 24 \/ day < firsts[i + 1])
    IN  ((k - 1) % 12) + 1

\* the payments of the four 15ths of March, June, September and December
\* 2024, 0.50 each, all of them in the window
ScenarioB ==
    /\ {e.ts : e \in dividends} = {d * TicksPerDay : d \in {74, 166, 258, 349}}
    /\ \A e \in dividends : e.amount = 500
    /\ Cardinality(dividends) = 4
    /\ InWindow(analysis.now1) = dividends
    /\ InWindow(analysis.now2) = dividends

\* C17: payment_months is the ascending list, without repetition, of the
\* calendar months 1..12 of the in-window payment dates: a month is in it
\* if and only if an in-window event falls in it; the four quarterly
\* payments of 2024 give 'trimestral', the months 3, 6, 9, 12 and 2.00.
C17_PaymentMonthsSortedSet ==
    Analysed =>
        LET months == metrics.dividend_payment_months IN
        /\ \A i \in DOMAIN months : months[i] \in 1..12
        /\ \A i, j \in DOMAIN months : i < j => months[i] < months[j]
        /\ {months[i] : i \in DOMAIN months}
               = {MonthOfDay(e.ts \div TicksPerDay) : e \in InWindow(analysis.now2)}
        /\ ScenarioB =>
              /\ months = <<3, 6, 9, 12>>
              /\ metrics.dividend_frequency = "trimestral"
              /\ metrics.annual_dividend = 2000

\* the four quarterly payments were analysed; and a history whose dates, in
\* the order of time, run over the turn of the year
C17_Witness ==
    /\ Analysed /\ ScenarioB
    /\ metrics.dividend_payment_months = <<3, 6, 9, 12>>

\* several payments of one month, and months of two years, in one profile
MonthsAcrossTheYear ==
    /\ Analysed
    /\ Cardinality(InWindow(analysis.now2)) > Len(metrics.dividend_payment_months)
    /\ \E e, f \in InWindow(analysis.now2) :
          /\ e.ts < f.ts
          /\ MonthOfDay(e.ts \div TicksPerDay) > MonthOfDay(f.ts \div TicksPerDay)

\* every profile the analyser returns is a classifier profile: without
\* cadence there is no dividend
ProfilesAreClassifierProfiles ==
    analysis.returned = "metrics" =>
        (metrics.dividend_frequency = "sin_dividendos" => metrics.annual_dividend = 0)

Labels == {"mensual", "trimestral", "irregular", "sin_dividendos"}

\* C22: analyze_dividend_frequency never raises and always answers one of
\* 'mensual', 'trimestral', 'irregular', 'sin_dividendos', whatever the
\* history, also when an error occurs inside it while it analyses.
C22_AlwaysALabel ==
    /\ analysis.returned = "metrics" => metrics.dividend_frequency \in Labels
    /\ again.returned = "metrics" => again.metrics.dividend_frequency \in Labels

\* an error inside the analysis of a history with payments was answered
\* with 'irregular'
C22_Witness ==
    /\ analysis.returned = "metrics" /\ analysis.raised
    /\ dividends # {}
    /\ metrics.dividend_frequency = "irregular"

(***************************************************************************)
(* Claims about the calendar.  A holding is a selected symbol with its     *)
(* shares and tax rate in the session and its row in the assets table.     *)
(***************************************************************************)
\* the tab went past its early returns and built the calendar
Computed == tab_result \in {"no_shares", "displayed"}

Selected == Range(portfolio_selected)

HoldingShares(s) == IF s \in DOMAIN portfolio_shares THEN portfolio_shares[s] ELSE 0

\* in tenths of a per cent
HoldingTaxRate(s) == IF s \in DOMAIN portfolio_tax_rates THEN portfolio_tax_rates[s] ELSE 0

Cadence(s) == assets_table[s].dividend_frequency

\* in mills
AnnualPerShare(s) == assets_table[s].annual_dividend

\* the payment months the database layer hands over for the row of s
StoredMonths(s) ==
    LET text == assets_table[s].dividend_payment_months IN
    {text[i].value : i \in {j \in DOMAIN text :
                               text[j].digits /\ text[j].value \in 1..12}}

\* the records of s in month m of a calendar, and the months that hold one
InfosOf(cal, m, s) == {i \in DOMAIN cal[m].assets : cal[m].assets[i].symbol = s}
PaidMonths(cal, s) == {m \in 1..12 : InfosOf(cal, m, s) # {}}

Included(s) ==
    /\ s \in Selected
    /\ HoldingShares(s) > 0
    /\ AnnualPerShare(s) > 0
    /\ Cadence(s) # "sin_dividendos"

RECURSIVE SumHoldings(_)
\* the sum of annual_dividend_per_share * shares over the holdings S, in mills
SumHoldings(S) ==
    IF S = {} THEN 0
    ELSE LET s == CHOOSE x \in S : TRUE
         IN  AnnualPerShare(s) * HoldingShares(s) + SumHoldings(S \ {s})

\* a holding as the data model has it: shares not negative, a tax rate
\* between 0 and 100 per cent
ValidHolding(s) ==
    /\ HoldingShares(s) >= 0
    /\ HoldingTaxRate(s) >= 0 /\ HoldingTaxRate(s) <= 1000

\* a profile as the classifier gives it: no dividend where no cadence
ClassifierProfile(s) == Cadence(s) = "sin_dividendos" => AnnualPerShare(s) = 0

\* C4: for any portfolio, the gross amounts of the twelve months of the
\* calendar _calculate_monthly_dividends returns add up to the sum over the
\* holdings of annual_dividend_per_share * shares.
C4_Conservation ==
    (Computed /\ \A s \in Selected : ValidHolding(s) /\ ClassifierProfile(s)) =>
        TotalAnnual(gross_calendar) = Rat(SumHoldings(Selected), 1000)

\* two holdings were split, one over three months and one over four
C4_Witness ==
    /\ tab_result = "displayed"
    /\ \A s \in Selected : ValidHolding(s) /\ ClassifierProfile(s)
    /\ \E s, t \in Selected :
          /\ Cardinality(PaidMonths(gross_calendar, s)) = 3
          /\ Cardinality(PaidMonths(gross_calendar, t)) = 4
    /\ TotalAnnual(gross_calendar).n > 0

\* the same sum taken over the included holdings alone holds of every
\* input, the holdings with negative shares and the rows without cadence
\* but with a dividend among them
ConservationOverIncluded ==
    Computed =>
        TotalAnnual(gross_calendar)
            = Rat(SumHoldings({s \in Selected : Included(s)}), 1000)

\* C5: for every contribution record of every month, after tax:
\* tax = gross * tax_rate / 100 and net = gross - tax, with tax_rate the
\* rate of the record's holding.
C5_TaxOfEachContribution ==
    Computed =>
        \A m \in 1..12 : \A i \in DOMAIN monthly_dividends[m].assets :
            LET info == monthly_dividends[m].assets[i]
                gross == gross_calendar[m].assets[i].amount
                rate == HoldingTaxRate(info.symbol)
                tax == info.tax_amount
                net == info.amount
            IN  /\ info.amount_before_tax = gross
                /\ tax.n * gross.d * 1000 = gross.n * rate * tax.d
                /\ net.n * gross.d * tax.d = (gross.n * tax.d - tax.n * gross.d) * net.d

\* a contribution was taxed at 15 per cent: tax and net are both positive
C5_Witness ==
    /\ tab_result = "displayed"
    /\ \E m \in 1..12 : \E i \in DOMAIN monthly_dividends[m].assets :
          LET info == monthly_dividends[m].assets[i] IN
          /\ HoldingTaxRate(info.symbol) = 150
          /\ info.tax_amount.n > 0
          /\ info.amount.n > 0
          /\ info.amount # info.amount_before_tax

\* C6: a holding has records in the calendar only if its shares are
\* positive; a holding whose cadence is 'sin_dividendos' or whose annual
\* dividend per share is <= 0 has no record in any month, and adds nothing
\* to any month's amount.
C6_SkippedHoldings ==
    Computed =>
        /\ \A s \in Range(Symbols) :
              /\ PaidMonths(gross_calendar, s) # {}
                    => (s \in Selected /\ HoldingShares(s) > 0)
              /\ (Cadence(s) = "sin_dividendos" \/ AnnualPerShare(s) <= 0)
                    => /\ PaidMonths(gross_calendar, s) = {}
                       /\ PaidMonths(monthly_dividends, s) = {}
        /\ (\A s \in Selected : Cadence(s) = "sin_dividendos" \/ AnnualPerShare(s) <= 0)
              => \A m \in 1..12 : /\ gross_calendar[m].amount.n = 0
                                  /\ monthly_dividends[m].amount.n = 0

\* a holding with shares and months but no dividend, and one with shares
\* and a dividend but no cadence, were skipped beside one that was paid
C6_Witness ==
    /\ tab_result = "displayed"
    /\ \E s \in Selected :
          /\ HoldingShares(s) > 0
          /\ \/ (AnnualPerShare(s) = 0 /\ StoredMonths(s) # {})
             \/ (Cadence(s) = "sin_dividendos" /\ AnnualPerShare(s) > 0)
          /\ PaidMonths(gross_calendar, s) = {}
    /\ \E s \in Selected : PaidMonths(gross_calendar, s) # {}

\* the cadence default: all months, {3, 6, 9, 12} or {6, 12}
CadenceDefault(s) ==
    IF Cadence(s) = "mensual" THEN 1..12
    ELSE IF Cadence(s) = "trimestral" THEN {3, 6, 9, 12}
    ELSE {6, 12}

\* C7: the months in which an included holding is paid are its stored
\* payment months when there are any, and otherwise the default of its
\* cadence: all twelve for 'mensual', {3, 6, 9, 12} for 'trimestral',
\* {6, 12} for 'irregular'.
C7_EffectiveMonths ==
    Computed =>
        \A s \in Range(Symbols) :
            Included(s) =>
                PaidMonths(gross_calendar, s) =
                    IF StoredMonths(s) # {} THEN StoredMonths(s) ELSE CadenceDefault(s)

\* one holding was paid in its stored months {2, 5, 8}, another, without
\* stored months, in the twelve months of its cadence
C7_Witness ==
    /\ tab_result = "displayed"
    /\ \E s, t \in Selected :
          /\ Included(s) /\ Included(t)
          /\ StoredMonths(s) = {2, 5, 8} /\ PaidMonths(gross_calendar, s) = {2, 5, 8}
          /\ StoredMonths(t) = {} /\ PaidMonths(gross_calendar, t) = 1..12

\* 100 shares at 2.00 a share, 'trimestral', taxed at 15 per cent
ScenarioC(s) ==
    /\ s \in Selected
    /\ Cadence(s) = "trimestral" /\ AnnualPerShare(s) = 2000
    /\ StoredMonths(s) \in {{}, {3, 6, 9, 12}}
    /\ HoldingShares(s) = 100 /\ HoldingTaxRate(s) = 150

\* C8: every effective payment month of an included holding receives one
\* record of the same gross amount total_annual / len(effective_months),
\* with total_annual = annual_dividend_per_share * shares; 100 shares at
\* 2.00, 'trimestral', 15 per cent tax give the months 3, 6, 9 and 12 a gross
\* of 50.00, a tax of 7.50 and a net of 42.50 each, and 170.00 net a year.
C8_EqualSplit ==
    Computed =>
        \A s \in Range(Symbols) :
            /\ Included(s) =>
                  \A m \in PaidMonths(gross_calendar, s) :
                      /\ Cardinality(InfosOf(gross_calendar, m, s)) = 1
                      /\ \A i \in InfosOf(gross_calendar, m, s) :
                            LET amount == gross_calendar[m].assets[i].amount IN
                            amount.n * Cardinality(PaidMonths(gross_calendar, s)) * 1000
                                = AnnualPerShare(s) * HoldingShares(s) * amount.d
            /\ ScenarioC(s) =>
                  /\ PaidMonths(monthly_dividends, s) = {3, 6, 9, 12}
                  /\ \A m \in {3, 6, 9, 12} :
                        \A i \in InfosOf(monthly_dividends, m, s) :
                            LET info == monthly_dividends[m].assets[i] IN
                            /\ info.amount_before_tax = [n |-> 50, d |-> 1]
                            /\ info.tax_amount = [n |-> 15, d |-> 2]
                            /\ info.amount = [n |-> 85, d |-> 2]
                  /\ (\A t \in Selected \ {s} : ~Included(t))
                        => TotalAnnual(monthly_dividends) = [n |-> 170, d |-> 1]

\* the scenario's holding was the only one paid, beside a holding whose
\* three stored months split 1.00 a share in thirds
C8_Witness ==
    /\ tab_result = "displayed"
    /\ \E s \in Selected :
          /\ ScenarioC(s)
          /\ TotalAnnual(monthly_dividends) = [n |-> 170, d |-> 1]
          /\ monthly_dividends[3].amount = [n |-> 85, d |-> 2]

\* C11: the annual net dividend the financial summary shows equals the sum
\* of the twelve monthly net amounts of the calendar built for the same
\* holdings and tax rates, and so does the total of the summary's own
\* monthly table.
C11_AnnualNetIsSumOfMonths ==
    (summary.result = "displayed" /\ tab_result = "displayed"
        /\ \A s \in Selected : ClassifierProfile(s)) =>
        /\ summary.after_tax = TotalAnnual(monthly_dividends)
        /\ summary.total_monthly = TotalAnnual(monthly_dividends)
        /\ summary.after_tax = RSub(summary.before_tax, summary.tax)

\* two holdings taxed at different rates, one of them at 15 per cent, were
\* summed by the summary and spread over the calendar
C11_Witness ==
    /\ summary.result = "displayed" /\ tab_result = "displayed"
    /\ \A s \in Selected : ClassifierProfile(s)
    /\ \E s, t \in Selected :
          /\ Included(s) /\ Included(t)
          /\ HoldingTaxRate(s) = 150 /\ HoldingTaxRate(t) # 150
    /\ summary.after_tax.n > 0
    /\ summary.tax.n > 0
    /\ summary.after_tax = TotalAnnual(monthly_dividends)

\* a row without cadence but with a dividend is counted by the summary and
\* skipped by the calendar: without the classifier's profiles the two
\* totals part
AnnualNetIsSumOfMonthsOfAnyRow ==
    (summary.result = "displayed" /\ tab_result = "displayed") =>
        summary.after_tax = TotalAnnual(monthly_dividends)

\* the months the given asset pays in, by the rules of the calendar: none
\* without shares, dividend or cadence; the asset's own months 1-12 when it
\* has any, else those of its cadence
AssetPaysIn(asset, shares) ==
    IF shares <= 0 \/ asset.annual_dividend * shares <= 0
       \/ asset.dividend_frequency \notin {"mensual", "trimestral", "irregular"}
    THEN {}
    ELSE LET own == Range(asset.dividend_payment_months) \cap (1..12) IN
         IF own # {} THEN own
         ELSE IF asset.dividend_frequency = "mensual" THEN 1..12
         ELSE IF asset.dividend_frequency = "trimestral" THEN {3, 6, 9, 12}
         ELSE {6, 12}

\* the shares the call reads for a symbol
CallShares(sym) ==
    LET d == IF call.shares_dict.given THEN call.shares_dict.dict ELSE portfolio_shares
    IN  IF sym \in DOMAIN d THEN d[sym] ELSE 0

\* the months in which some asset of the call pays
CallPaidMonths ==
    UNION {AssetPaysIn(call.assets[i], CallShares(call.assets[i].symbol)) :
              i \in DOMAIN call.assets}

\* C12: the calendar the aggregator returns has exactly the twelve entries
\* of the months 1..12, whatever the input, the empty list of assets
\* included; a month in which no holding pays has amount 0 and no records,
\* and a month in which one pays has records.
C12_TwelveMonths ==
    call.state = "returned" =>
        /\ DOMAIN call.returned = 1..12
        /\ \A m \in 1..12 :
              /\ DOMAIN call.returned[m] = {"amount", "assets"}
              /\ m \notin CallPaidMonths
                    => /\ call.returned[m].amount = [n |-> 0, d |-> 1]
                       /\ call.returned[m].assets = <<>>
              /\ m \in CallPaidMonths => call.returned[m].assets # <<>>

\* the empty list of assets gave twelve empty months
C12_Witness ==
    /\ call.state = "returned"
    /\ call.assets = <<>>
    /\ DOMAIN call.returned = 1..12
    /\ \A m \in 1..12 : call.returned[m].assets = <<>>

\* a call paid some months and left the others empty
TwelveMonthsPartlyPaid ==
    /\ call.state = "returned"
    /\ CallPaidMonths = {6}
    /\ call.returned[6].amount.n > 0
    /\ call.returned[5].assets = <<>>

\* C20: computing the calendar has no side effects: a call of
\* _calculate_monthly_dividends leaves the asset records and the shares
\* dictionary it was given, the session's selection, shares and tax rates,
\* and the assets table as they were.
C20_NoSideEffects ==
    [][(call.state = "ready" /\ call'.state = "returned") =>
          /\ call'.assets = call.assets
          /\ call'.shares_dict = call.shares_dict
          /\ portfolio_selected' = portfolio_selected
          /\ portfolio_shares' = portfolio_shares
          /\ portfolio_tax_rates' = portfolio_tax_rates
          /\ assets_table' = assets_table]_vars

\* a call returned a calendar with payments, having looked up a symbol its
\* shares dictionary does not hold
C20_Witness ==
    /\ call.state = "returned"
    /\ \E i \in DOMAIN call.assets :
          call.assets[i].symbol \notin
              DOMAIN (IF call.shares_dict.given THEN call.shares_dict.dict
                      ELSE portfolio_shares)
    /\ CallPaidMonths # {}
    /\ assets_table # <<>>

RECURSIVE RecordSum(_, _)
\* the sum of the amounts of the records of a month with indices in I
RecordSum(infos, I) ==
    IF I = {} THEN [n |-> 0, d |-> 1]
    ELSE LET i == CHOOSE x \in I : TRUE
         IN  RAdd(infos[i].amount, RecordSum(infos, I \ {i}))

\* C13: in every month of the calendar the month's amount is the sum of the
\* amounts of the month's records, in the gross calendar that
\* _calculate_monthly_dividends returns and in the calendar after taxes.
C13_MonthTotalIsSumOfRecords ==
    Computed =>
        \A m \in 1..12 :
            /\ gross_calendar[m].amount =
                   RecordSum(gross_calendar[m].assets, DOMAIN gross_calendar[m].assets)
            /\ monthly_dividends[m].amount =
                   RecordSum(monthly_dividends[m].assets,
                             DOMAIN monthly_dividends[m].assets)

\* a month holds the records of two holdings, taxed at different rates
C13_Witness ==
    /\ tab_result = "displayed"
    /\ \E m \in 1..12 :
          /\ Len(monthly_dividends[m].assets) = 2
          /\ monthly_dividends[m].assets[1].tax_rate
                 # monthly_dividends[m].assets[2].tax_rate
          /\ monthly_dividends[m].amount.n > 0
          /\ monthly_dividends[m].amount # gross_calendar[m].amount
          /\ gross_calendar[m].amount # gross_calendar[m].assets[1].amount

(***************************************************************************)
(* Claims about the batches.                                               *)
(***************************************************************************)
BatchDone == batch.state = "done"

\* the feed's answer for a ticker is one the batch stores
Storable(ticker) ==
    LET f == batch.feed[ticker] IN
    /\ f.kind = "metrics"
    /\ f.name # "None"
    /\ f.current_price > 0
    /\ f.dividend_yield >= 0 /\ f.dividend_yield <= 100000
    /\ ~(batch.kind = "search" /\ ticker \in DOMAIN batch.table0)

\* C18: in the three batch functions a failure or an exception on one
\* ticker does not end the batch: every ticker of the input has exactly one
\* row in the results table, in the order of the input, and every ticker
\* after a failed one is still processed, stored when its metrics are good.
C18_BatchGoesOn ==
    BatchDone =>
        /\ Len(batch.results) = Len(batch.tickers)
        /\ \A i \in DOMAIN batch.tickers :
              LET ticker == batch.tickers[i] IN
              /\ batch.results[i].ticker = ticker
              /\ batch.feed[ticker].kind = "raises"
                    => batch.results[i].estado = "error"
              /\ Storable(ticker)
                    => /\ batch.results[i].estado
                              \in {"exitoso", "actualizado", "agregado"}
                       /\ ticker \in DOMAIN assets_table
                       /\ assets_table[ticker].annual_dividend
                              = batch.feed[ticker].annual_dividend
                       /\ assets_table[ticker].name = "name"

\* a batch of three whose first ticker raised and whose second was turned
\* down by the database stored its third
C18_Witness ==
    /\ BatchDone
    /\ Len(batch.tickers) = 3
    /\ batch.results[1].estado = "error"
    /\ batch.results[2].estado = "error_bd"
    /\ batch.results[3].estado \in {"exitoso", "actualizado", "agregado"}
    /\ batch.tickers[3] \in DOMAIN assets_table
    /\ batch.tickers[3] \notin DOMAIN batch.table0

\* the table the batch leaves when its tickers are processed in the order p
TableAfter(p) ==
    RunBatch(batch.kind, batch.table0, p, batch.feed, batch.started, <<>>).table

\* a table without the insertion stamps of its rows
WithoutStamps(table) ==
    [s \in DOMAIN table |->
        [f \in (DOMAIN table[s]) \ {"created_at"} |-> table[s][f]]]

C9_InvalidHoldingRejected ==
    Computed =>
        \A s \in Selected :
            ~ValidHolding(s) =>
                /\ holding_status[s] = "rejected"
                /\ PaidMonths(monthly_dividends, s) = {}

\* the months entries of the row of s that are numbers outside 1-12
OutOfRangeEntries(s) ==
    LET text == assets_table[s].dividend_payment_months IN
    {text[i].value : i \in {j \in DOMAIN text :
                               text[j].digits /\ text[j].value \notin 1..12}}

\* C10: a profile whose payment months hold an entry outside 1-12 is
\* rejected with an error for that record; the entry is never dropped in
\* silence.
C10_OutOfRangeMonthRejected ==
    Computed =>
        \A s \in Selected :
            OutOfRangeEntries(s) # {} =>
                /\ holding_status[s] = "rejected"
                /\ PaidMonths(gross_calendar, s) = {}

(***************************************************************************)
(* Claims about the conversions of the payment months.                     *)
(***************************************************************************)
\* the months a text names: its tokens that are integers in 1..12
MonthsNamed(text) ==
    {text[j].value : j \in {k \in DOMAIN text :
                               text[k].decimal /\ text[k].value \in 1..12}}

\* C25: _parse_payment_months returns the ascending duplicate-free list of
\* the tokens that are integers in 1..12, invalid tokens ignored and the
\* empty input giving []; and for every list of months in 1..12, parsing the
\* formatted list gives the sorted duplicate-free months.
C25_ParseAndRoundTrip ==
    /\ codec.state = "parsed" => codec.result = SortedSeq(MonthsNamed(codec.text))
    /\ codec.state = "round_trip" => codec.result = SortedSeq(Range(codec.months))

\* the same, for the texts whose tokens of digits are all decimal numbers
C25_ParseAndRoundTripOfDecimals ==
    (\A j \in DOMAIN codec.text : codec.text[j].digits => codec.text[j].decimal) =>
        C25_ParseAndRoundTrip

\* a list with a duplicate, out of order, came back sorted and without it
C25_RoundTripReached ==
    /\ codec.state = "round_trip"
    /\ codec.months = <<12, 3, 12>>
    /\ codec.result = <<3, 12>>

(***************************************************************************)
(* Claims about the assets table.                                          *)
(***************************************************************************)
\* name, price, annual dividend, yield, frequency and payment months
Profile(asset) ==
    [name |-> asset.name, current_price |-> asset.current_price,
     annual_dividend |-> asset.annual_dividend,
     dividend_yield |-> asset.dividend_yield,
     dividend_frequency |-> asset.dividend_frequency,
     dividend_payment_months |-> asset.dividend_payment_months]

\* C23: after any sequence of upsert_asset and delete_asset calls the table
\* holds at most one record per symbol, and get_asset(symbol) returns the
\* name, price, annual dividend, yield, frequency and payment months of the
\* latest successful upsert of the symbol, None if the symbol was deleted
\* afterwards or never stored.
C23_GetReturnsLatestUpsert ==
    store.state = "open" =>
        /\ \A sym \in DOMAIN assets_table : assets_table[sym].symbol = sym
        /\ \A sym \in Range(Symbols) :
              /\ sym \notin DOMAIN store.last => GetAsset(assets_table, sym) = {}
              /\ sym \in DOMAIN store.last =>
                    /\ Cardinality(GetAsset(assets_table, sym)) = 1
                    /\ \A asset \in GetAsset(assets_table, sym) :
                          /\ asset.symbol = sym
                          /\ Profile(asset) = Profile(store.last[sym])
        /\ store.op = "get" =>
              \/ store.symbol \notin DOMAIN store.last /\ store.got = {}
              \/ /\ store.symbol \in DOMAIN store.last
                 /\ {Profile(asset) : asset \in store.got}
                       = {Profile(store.last[store.symbol])}

\* a symbol was stored, overwritten by a second upsert and read back
C23_Witness ==
    /\ store.state = "open" /\ store.op = "get" /\ store.ops = 3
    /\ store.symbol = "AAA"
    /\ \E asset \in store.got :
          /\ asset.name = "other name"
          /\ asset.dividend_payment_months = <<12>>
    /\ "BBB" \notin DOMAIN assets_table

\* a symbol deleted after its upsert is read as None
C23_DeletedReached ==
    /\ store.state = "open" /\ store.op = "get" /\ store.ops = 2
    /\ store.symbol = "AAA" /\ store.got = {}
    /\ "AAA" \notin DOMAIN assets_table

\* C24: upsert_asset on an existing symbol with asset data that carries no
\* 'platforms' value leaves the stored platforms of the asset as they were,
\* so a refresh of its metrics never erases its platforms.
C24_PlatformsKept ==
    [][\A sym \in DOMAIN assets_table :
          (/\ store.state = "open"
           /\ store'.op = "upsert" /\ store'.symbol = sym /\ store'.ops = store.ops + 1
           /\ \A asset_data \in store'.arg : "platforms" \notin DOMAIN asset_data)
          => /\ sym \in DOMAIN assets_table'
             /\ assets_table'[sym].platforms = assets_table[sym].platforms]_vars

\* an asset with platforms was refreshed with new metrics and kept them
C24_Witness ==
    /\ store.state = "open" /\ store.op = "upsert" /\ store.ok /\ store.ops = 3
    /\ store.symbol = "AAA"
    /\ \A asset_data \in store.arg : "platforms" \notin DOMAIN asset_data
    /\ "AAA" \in DOMAIN assets_table
    /\ assets_table["AAA"].platforms = "PREX"
    /\ assets_table["AAA"].name = "other name"

\* C26: get_assets_by_payment_month(month) returns exactly the stored
\* assets whose parsed payment-month list contains month; an asset that
\* pays only in months 10, 11 or 12 is never returned for month 1, nor for
\* month 2 when it pays only in 12.
C26_ByMonthIsExact ==
    store.state = "open" =>
        \A month \in QueryMonths :
            LET result == GetAssetsByPaymentMonth(assets_table, month) IN
            /\ Range(result) =
                  {asset \in UNION {GetAsset(assets_table, sym) : sym \in DOMAIN assets_table} :
                      month \in Range(asset.dividend_payment_months)}
            /\ Len(result) = Cardinality(Range(result))
            /\ \A i \in DOMAIN result :
                  /\ month = 1 => Range(result[i].dividend_payment_months) \cap (1..9) # {}
                  /\ month = 2 => result[i].dividend_payment_months # <<12>>
            /\ \A sym \in DOMAIN assets_table :
                  /\ AssetHasPaymentMonth(assets_table[sym].dividend_payment_months, FALSE, month)
                        = (\E i \in DOMAIN result : result[i].symbol = sym)
                  /\ AssetHasPaymentMonth(AssetOf(assets_table[sym]).dividend_payment_months,
                                          TRUE, month)
                        = (\E i \in DOMAIN result : result[i].symbol = sym)

\* the assets of January were asked for while the table held an asset
\* paying in October, November and December and one paying in December
C26_Witness ==
    /\ store.state = "open" /\ store.op = "by_month" /\ store.month = 1
    /\ store.by_month = <<>>
    /\ DOMAIN assets_table = {"AAA", "BBB"}
    /\ AssetOf(assets_table["AAA"]).dividend_payment_months = <<10, 11, 12>>
    /\ AssetOf(assets_table["BBB"]).dividend_payment_months = <<12>>

(***************************************************************************)
(* Claims about the portfolios table.                                      *)
(***************************************************************************)
\* selected symbols, shares and tax rates
Holdings(portfolio) ==
    Portfolio(portfolio.selected_symbols, portfolio.shares_data, portfolio.tax_rates_data)

\* C27: after any sequence of save_portfolio and delete_portfolio calls
\* there is at most one stored portfolio per name, and get_portfolio(name)
\* returns the selected symbols, shares and tax rates of the latest
\* successful save under the name, None if the name was deleted afterwards
\* or never saved.
C27_GetReturnsLatestSave ==
    portfolios.state = "open" =>
        /\ \A r1, r2 \in portfolios.rows : r1.name = r2.name => r1 = r2
        /\ \A name \in PortfolioNames :
              /\ name \notin DOMAIN portfolios.last =>
                    GetPortfolio(portfolios.rows, name) = {}
              /\ name \in DOMAIN portfolios.last =>
                    {Holdings(p) : p \in GetPortfolio(portfolios.rows, name)}
                        = {portfolios.last[name]}
        /\ portfolios.op = "get" =>
              \/ portfolios.name \notin DOMAIN portfolios.last /\ portfolios.got = {}
              \/ /\ portfolios.name \in DOMAIN portfolios.last
                 /\ {Holdings(p) : p \in portfolios.got}
                       = {portfolios.last[portfolios.name]}

\* a portfolio was saved twice under one name and read back, beside
\* another one
C27_Witness ==
    /\ portfolios.state = "open" /\ portfolios.op = "get" /\ portfolios.ops = 3
    /\ portfolios.name = "Renta"
    /\ Cardinality(portfolios.rows) = 2
    /\ \E p \in portfolios.got :
          /\ p.id = 1
          /\ p.selected_symbols = <<"AAA", "BBB">>
          /\ p.shares_data["AAA"] = 2
          /\ p.tax_rates_data["BBB"] = 1500

\* a portfolio deleted after its save is read as None
C27_DeletedReached ==
    /\ portfolios.state = "open" /\ portfolios.op = "get" /\ portfolios.ops = 2
    /\ portfolios.name = "Renta" /\ portfolios.got = {}
    /\ portfolios.rows = {}
    /\ portfolios.next_id = 2

(***************************************************************************)
(* Claims about the automatic search.                                      *)
(***************************************************************************)
SearchDone == BatchDone /\ batch.kind \in {"search", "search_tab"}

\* the search left the rows the table held before it as they were and
\* added rows only for symbols it did not hold
ExistingNeverModified ==
    SearchDone =>
        /\ \A sym \in DOMAIN batch.table0 :
              sym \in DOMAIN assets_table /\ assets_table[sym] = batch.table0[sym]
        /\ \A i \in DOMAIN batch.results :
              batch.results[i].estado = "agregado"
                 => /\ batch.results[i].ticker \notin DOMAIN batch.table0
                    /\ batch.results[i].ticker \in DOMAIN assets_table

\* every symbol asked for that the table already held was reported as
\* already existing: by the tab in its list of stored tickers, by
\* _process_auto_search in the row of the symbol
ExistingReported ==
    SearchDone =>
        \A i \in DOMAIN batch.requested :
            batch.requested[i] \in DOMAIN batch.table0 =>
                \/ /\ batch.kind = "search_tab"
                   /\ batch.requested[i] \in Range(batch.already_stored)
                   /\ batch.requested[i] \notin Range(batch.tickers)
                \/ /\ batch.kind = "search"
                   /\ batch.results[i].estado = "ya_existe"

\* C28: the automatic search adds only assets that are not yet stored:
\* _process_auto_search never modifies the stored record of a symbol that
\* already exists in the database, and reports such a symbol as already
\* existing.
C28_SearchAddsOnlyNew == ExistingNeverModified /\ ExistingReported

\* _process_auto_search reports a stored symbol as already existing when the
\* metrics of the symbol were fetched and are valid
C28_ReportedWhenFetched ==
    (BatchDone /\ batch.kind = "search") =>
        \A i \in DOMAIN batch.tickers :
            (/\ batch.tickers[i] \in DOMAIN batch.table0
             /\ batch.feed[batch.tickers[i]].kind = "metrics"
             /\ ValidateAssetMetrics(MetricsOf(batch.tickers[i], batch.feed[batch.tickers[i]])))
            => batch.results[i].estado = "ya_existe"

\* the tab listed a stored ticker and the search added a new one beside it
C28_TabReached ==
    /\ BatchDone /\ batch.kind = "search_tab"
    /\ batch.already_stored = <<"AAA">>
    /\ batch.tickers = <<"BBB">>
    /\ batch.results[1].estado = "agregado"
    /\ assets_table["AAA"] = batch.table0["AAA"]

(***************************************************************************)
(* Claims about the selection tab.                                         *)
(***************************************************************************)
\* the tab has just run with the multiselect left alone
FiltersAlone == selection.state = "open" /\ selection.shown # "none" /\ ~selection.touched

\* the symbols the portfolio held before the run that the filters exclude
ExcludedByFilters ==
    Range(selection.before)
        \ FilteredAssets(assets_table, selection.filter_platform,
                          selection.filter_freq, selection.min_yield)

\* C29: in the selection tab, when symbols of the current portfolio, for
\* example one just loaded, are excluded by the active platform, frequency
\* and yield filters, they remain in portfolio_selected and are named by the
\* warning about symbols not available under the current filters; a change
\* of filters alone never removes a symbol from the portfolio.
C29_FilteredSymbolsKept ==
    FiltersAlone =>
        /\ Range(selection.before) \subseteq Range(portfolio_selected)
        /\ ExcludedByFilters \subseteq Range(selection.missing_symbols)

\* the warning about symbols not available under the filters is never shown
MissingSymbolsNeverReported ==
    selection.state = "open" => selection.missing_symbols = <<>>

\* what the tab does with the excluded symbols: it keeps them, without a
\* warning, only when no asset at all passes the filters; otherwise it
\* removes them
ExcludedSymbolsDropped ==
    FiltersAlone =>
        IF selection.shown = "no_options"
        THEN portfolio_selected = selection.before
        ELSE Range(portfolio_selected) = Range(selection.before) \ ExcludedByFilters

\* a loaded portfolio of three lost two of its symbols to a platform filter
C29_DroppedReached ==
    /\ FiltersAlone
    /\ selection.loaded_name = "Renta"
    /\ selection.before = <<"AAA", "BBB", "CCC">>
    /\ selection.filter_platform = "Sin plataforma"
    /\ portfolio_selected = <<"BBB">>
    /\ selection.missing_symbols = <<>>

(***************************************************************************)
(* Claims about the symbol cache.                                          *)
(***************************************************************************)
CalledWithCache == cache.state = "open" /\ cache.op = "get" /\ cache.use_cache

\* what the call did, given whether the cache it found was one to use
CacheUsedIff(usable) ==
    IF usable
    THEN /\ cache.result = cache.before.symbols
         /\ ~cache.consulted
         /\ cache.file = cache.before
    ELSE /\ cache.consulted
         /\ cache.result = cache.fetched
         /\ cache.file = CacheFile(cache.now, cache.fetched)

\* C30: with use_cache=True, get_all_available_symbols returns the cached
\* list without consulting the exchanges whenever a readable, non-empty
\* cache at most 7 days old exists; otherwise (no cache, unreadable cache,
\* cache older than 7 days) it fetches the symbols and overwrites the cache
\* with what it fetched.
C30_CacheUsedWithinSevenDays ==
    CalledWithCache =>
        CacheUsedIff(/\ cache.before.kind = "ok"
                     /\ cache.before.symbols # <<>>
                     /\ cache.now - cache.before.date <= CacheExpiryDays * TicksPerDay)

\* the same with the age of the cache counted in whole days, as
\* timedelta.days counts it: the cache is used until it is 8 days old
CacheUsedWithinSevenWholeDays ==
    CalledWithCache =>
        CacheUsedIff(/\ cache.before.kind = "ok"
                     /\ cache.before.symbols # <<>>
                     /\ cache.now - cache.before.date < (CacheExpiryDays + 1) * TicksPerDay)

\* a cache more than 7 and less than 8 days old was returned
C30_StaleCacheUsed ==
    /\ CalledWithCache
    /\ cache.before.kind = "ok"
    /\ cache.now - cache.before.date > CacheExpiryDays * TicksPerDay
    /\ ~cache.consulted
    /\ cache.result = <<"AAA">>

\* a cache 8 days old was fetched again and overwritten
C30_RenewedReached ==
    /\ CalledWithCache
    /\ cache.before = CacheFile(0, <<"AAA">>)
    /\ cache.now = (CacheExpiryDays + 1) * TicksPerDay
    /\ cache.consulted
    /\ cache.file = CacheFile(cache.now, <<"BBB", "CCC">>)

====
